---- MODULE Spec2Model ----
(***************************************************************************)
(* Model of the voiceboard real-time audio engine                          *)
(* (src-tauri/src/application/audio_engine.rs), of the way the Tauri       *)
(* application drives it (application/commands.rs, lib.rs) and of the      *)
(* earlier engine skeleton (src-tauri/src/audio/engine.rs).                *)
(*                                                                         *)
(* Samples are fixed-point integers in hundredths (100 = 1.0); gains are   *)
(* fixed-point integers in tenths (10 = 1.0, 20 = 2.0).                    *)
(***************************************************************************)
EXTENDS Integers, Sequences, FiniteSets, TLC

(***************************************************************************)
(* Bounds of the model.  The two channel capacities and the ring size are  *)
(* scaled down from the program's 32, 64 and 8192.                         *)
(***************************************************************************)
CmdCap == 2
EvCap == 2
RingCap == 2
MaxSends == 4
MaxCapture == 4
MaxRendered == 6

None == "none"

VARIABLES
    cmdq,            \* command channel, bounded(32) in the program
    events,          \* event channel, bounded(64) in the program
    pc,              \* position of the engine thread
    pending,         \* event the engine thread is sending, or NoEvent
    input_stream,    \* Option<cpal::Stream> kept by the engine thread
    output_stream,
    input_s,         \* the Start handler's local stream handles
    output_s,
    is_running,      \* Arc<AtomicBool>
    playing_sounds,  \* AudioState.playing_sounds: id -> PlayingSound
    mic_volume,      \* atomics read by the callbacks
    master_volume,
    mic_muted,
    client,          \* position of the owner of the AudioEngine value
    sendResult,      \* result of the last send_command that returned
    lock,            \* tokio Mutex around the AudioEngine in AppState
    ctl,             \* control threads (Tauri command handlers)
    ring,            \* HeapRb<f32> between the capture and render callbacks
    capture,         \* capture callback in progress
    render,          \* render callback in progress
    stub,            \* audio/engine.rs: the skeleton engine
    state_lock,      \* holder of the Mutex around AudioState
    adapter,         \* adapters/cpal_output.rs: ring and last buffer rendered
    is_mixing,       \* AppState::is_mixing
    returned,        \* results the start_mixing calls have returned
    frontend,        \* events the forwarding thread emitted to the webview
    \* application/preview_engine.rs
    preview_cmdq,    \* command channel of the preview engine
    current_sink,    \* Option<Sink> of the preview thread
    current_stream,  \* Option<OutputStream> of the preview thread
    current_stream_handle,
    current_pad_id,  \* Arc<Mutex<Option<String>>>
    preview_pc,      \* position of the preview thread
    preview_locals,  \* locals of the Play handler in progress
    preview_events,  \* preview events emitted to the webview, in order
    preview_client,  \* position of the owner of the PreviewEngine value
    sample_op,       \* domain/audio/sample.rs: a Sample and the operation it came from
    buffers,         \* domain/audio/buffer.rs: two AudioBuffers and their mix
    mixer_config,    \* AppState::mixer_config
    resolved,        \* a device name and what each lookup made of it
    chain,           \* dsp/mod.rs: the EffectChain and the last buffer it processed
    shifter,         \* dsp/pitch_shifter.rs, dsp/formant_shifter.rs: one shifter
    manager,         \* soundboard/manager.rs: storage, cache and the calls in progress
    contributed,     \* per sound: the samples mixed in since its PlaySound
    \* history variables
    nsent,           \* number of commands accepted by the command channel
    curSeq,          \* sequence number of the command being handled
    applied,         \* sequence numbers of the commands whose change is applied
    handled,         \* the command handled last and what its handler did
    dropLog,         \* <<path, status>> of every stream dropped so far
    preStop,         \* sounds that were playing when the last Stop was handled
    ranBefore,       \* a Start succeeded and a Stop was handled after it
    pushLog,         \* processed samples the capture callback offered to the ring
    popLog,          \* samples the render callback popped from the ring
    inserted,        \* samples of the last PlaySound handled for each id
    underLock,       \* the last command handled under the state mutex, and
                     \* playing_sounds as its handler found it
    tick,            \* what the current or last render callback did
    nrendered,       \* number of samples the render callbacks have written
    preview_sent,    \* number of Play and Stop commands sent to the preview engine
    preview_before,  \* preview state found by the last Play or Stop handler
    preview_handled  \* number of Play and Stop commands the preview thread took

chanVars == <<cmdq, events>>
engVars == <<pc, pending, input_stream, output_stream, input_s, output_s, is_running>>
mixVars == <<playing_sounds, mic_volume, master_volume, mic_muted>>
clientVars == <<client, sendResult>>
bridgeVars == <<lock, ctl>>
ringVars == <<ring, capture, render, pushLog, popLog>>
histVars == <<nsent, curSeq, applied, handled, dropLog, preStop, ranBefore>>
lockVars == <<state_lock, inserted, underLock>>
tickVars == <<tick, nrendered>>
uiVars == <<is_mixing, returned, frontend>>
audioVars == <<lockVars, tickVars, adapter, contributed>>
previewVars == <<preview_cmdq, current_sink, current_stream, current_stream_handle,
                 current_pad_id, preview_pc, preview_locals, preview_events,
                 preview_client, preview_sent, preview_before, preview_handled>>
domainVars == <<sample_op, buffers, mixer_config>>
extVars == <<resolved, chain, shifter, manager>>
sideVars == <<previewVars, domainVars, extVars>>
restVars == <<chanVars, engVars, mixVars, clientVars, bridgeVars, ringVars, stub, lockVars,
              tickVars, adapter, contributed, uiVars, previewVars, domainVars, histVars>>
appVars == <<uiVars, sideVars>>
otherVars == <<audioVars, appVars>>
vars == <<chanVars, engVars, mixVars, clientVars, bridgeVars, ringVars, stub, otherVars,
          histVars>>

(***************************************************************************)
(* Commands and events                                                     *)
(***************************************************************************)
Cmd(kind, i, o, id, samples, volume, muted) ==
    [kind |-> kind, input_device |-> i, output_device |-> o, id |-> id,
     samples |-> samples, volume |-> volume, muted |-> muted, seq |-> 0]

Start(i, o) == Cmd("Start", i, o, "", <<>>, 0, FALSE)
Stop == Cmd("Stop", "", "", "", <<>>, 0, FALSE)
PlaySound(id, samples) == Cmd("PlaySound", "", "", id, samples, 0, FALSE)
StopSound(id) == Cmd("StopSound", "", "", id, <<>>, 0, FALSE)
SetMicVolume(v) == Cmd("SetMicVolume", "", "", "", <<>>, v, FALSE)
SetMasterVolume(v) == Cmd("SetMasterVolume", "", "", "", <<>>, v, FALSE)
SetMicMuted(m) == Cmd("SetMicMuted", "", "", "", <<>>, 0, m)
Shutdown == Cmd("Shutdown", "", "", "", <<>>, 0, FALSE)
\* no command has been handled under the state mutex yet
NoCommand == Cmd("none", "", "", "", <<>>, 0, FALSE)

Event(kind, reason) == [kind |-> kind, reason |-> reason]
Started == Event("Started", "")
Stopped == Event("Stopped", "")
Error(reason) == Event("Error", reason)
NoEvent == Event("none", "")

EmptyMap == [x \in {} |-> 0]

(***************************************************************************)
(* The host's devices (cpal).  A host is what the engine thread finds at   *)
(* the moment it handles a Start: devices come and go between commands.    *)
(***************************************************************************)
Hosts == [inputs : {{}, {"mic"}}, outputs : {{}, {"cable"}}, enum_ok : BOOLEAN]

default_device(h, is_input) ==
    LET names == IF is_input THEN h.inputs ELSE h.outputs
    IN  IF names = {} THEN None ELSE CHOOSE n \in names : TRUE

find_device(h, name, is_input) ==
    IF name = "default" THEN default_device(h, is_input)
    ELSE IF ~h.enum_ok THEN None
    ELSE IF name \in (IF is_input THEN h.inputs ELSE h.outputs) THEN name
    ELSE None

(***************************************************************************)
(* Stream handles.  A handle is None or the state of the open stream:      *)
(* "built" (created, never played), "playing" or "paused".                 *)
(***************************************************************************)
StreamStates == {None, "built", "playing", "paused"}

\* stream.pause() in `if let Some(ref stream)`: the result is ignored
Pause(s) == IF s = None THEN None ELSE "paused"

\* the record of a drop: which path dropped a stream in which state
Dropped(path, s) == IF s = None THEN {} ELSE {<<path, s>>}

\* Start, lines 213-214: `input_stream = None; output_stream = None;`
DropExisting_Keep(s) == s
DropExisting(s) == None

\* Stop, line 399: `state.playing_sounds.clear()`
ClearPlaying_Keep(ps) == ps
ClearPlaying(ps) == EmptyMap

(***************************************************************************)
(* The command loop of the engine thread                                   *)
(***************************************************************************)
\* command_rx.recv_timeout: the channel is first-in first-out
RecvIndex_Last(q) == Len(q)
RecvIndex(q) == 1

Without(q, i) == [j \in 1..(Len(q) - 1) |-> IF j < i THEN q[j] ELSE q[j + 1]]

Received == cmdq[RecvIndex(cmdq)]

Recv(kind) ==
    /\ pc = "recv"
    /\ cmdq # <<>>
    /\ Received.kind = kind
    /\ cmdq' = Without(cmdq, RecvIndex(cmdq))
    /\ curSeq' = Received.seq

Handling(kind, failed) ==
    [cmd |-> kind, failed |-> failed, wasRunning |-> is_running, evs |-> <<>>]

\* a handler that ends in event_tx.send(ev): the send is the next step
SendEvent(ev) ==
    /\ pending' = ev
    /\ pc' = "emit"

StartFails(reason) ==
    /\ SendEvent(Error(reason))
    /\ handled' = [handled EXCEPT !.failed = TRUE]
    /\ applied' = applied \cup {curSeq}

NewRing == [buf |-> [i \in 0..(RingCap - 1) |-> 0], read |-> 0, write |-> 0]

HandleStart ==
    /\ Recv("Start")
    /\ \E h \in Hosts :
        LET input_dev == find_device(h, Received.input_device, TRUE)
            output_dev == find_device(h, Received.output_device, FALSE)
        IN  /\ input_stream' = DropExisting(input_stream)
            /\ output_stream' = DropExisting(output_stream)
            /\ dropLog' = dropLog
                   \cup (IF input_stream' = None
                         THEN Dropped("Restart", input_stream) ELSE {})
                   \cup (IF output_stream' = None
                         THEN Dropped("Restart", output_stream) ELSE {})
            /\ \/ /\ input_dev = None
                  /\ SendEvent(Error("Input device not found"))
                  /\ handled' = Handling("Start", TRUE)
                  /\ applied' = applied \cup {Received.seq}
                  /\ UNCHANGED ring
               \/ /\ input_dev # None
                  /\ output_dev = None
                  /\ SendEvent(Error("Output device not found"))
                  /\ handled' = Handling("Start", TRUE)
                  /\ applied' = applied \cup {Received.seq}
                  /\ UNCHANGED ring
               \/ /\ input_dev # None
                  /\ output_dev # None
                  /\ ring' = NewRing
                  /\ pc' = "build_input"
                  /\ handled' = Handling("Start", FALSE)
                  /\ UNCHANGED <<pending, applied>>
    /\ UNCHANGED <<events, input_s, output_s, is_running, mixVars, clientVars,
                   bridgeVars, capture, render, pushLog, popLog, stub, otherVars,
                   nsent, preStop, ranBefore>>

BuildInputStream ==
    /\ pc = "build_input"
    /\ \/ /\ input_s' = "built"
          /\ pc' = "build_output"
          /\ UNCHANGED <<pending, handled, applied>>
       \/ /\ StartFails("Failed to create input stream")
          /\ UNCHANGED input_s
    /\ UNCHANGED <<chanVars, input_stream, output_stream, output_s, is_running,
                   mixVars, clientVars, bridgeVars, ringVars, stub, otherVars,
                   nsent, curSeq, dropLog, preStop, ranBefore>>

BuildOutputStream ==
    /\ pc = "build_output"
    /\ \/ /\ output_s' = "built"
          /\ pc' = "play_input"
          /\ UNCHANGED <<pending, handled, applied, input_s, dropLog>>
       \/ /\ StartFails("Failed to create output stream")
          /\ input_s' = None
          /\ dropLog' = dropLog \cup Dropped("StartFail", input_s)
          /\ UNCHANGED output_s
    /\ UNCHANGED <<chanVars, input_stream, output_stream, is_running,
                   mixVars, clientVars, bridgeVars, ringVars, stub, otherVars,
                   nsent, curSeq, preStop, ranBefore>>

PlayInputStream ==
    /\ pc = "play_input"
    /\ \/ /\ input_s' = "playing"
          /\ pc' = "play_output"
          /\ UNCHANGED <<pending, handled, applied, output_s, dropLog>>
       \/ /\ StartFails("Failed to start input")
          /\ input_s' = None
          /\ output_s' = None
          /\ dropLog' = dropLog \cup Dropped("StartFail", input_s)
                                \cup Dropped("StartFail", output_s)
    /\ UNCHANGED <<chanVars, input_stream, output_stream, is_running,
                   mixVars, clientVars, bridgeVars, ringVars, stub, otherVars,
                   nsent, curSeq, preStop, ranBefore>>

PlayOutputStream ==
    /\ pc = "play_output"
    /\ \/ /\ input_stream' = input_s
          /\ output_stream' = "playing"
          /\ input_s' = None
          /\ output_s' = None
          /\ dropLog' = dropLog \cup Dropped("Restart", input_stream)
                                \cup Dropped("Restart", output_stream)
          /\ is_running' = TRUE
          /\ SendEvent(Started)
          /\ applied' = applied \cup {curSeq}
          /\ UNCHANGED handled
       \/ /\ StartFails("Failed to start output")
          /\ input_s' = None
          /\ output_s' = None
          /\ dropLog' = dropLog \cup Dropped("StartFail", input_s)
                                \cup Dropped("StartFail", output_s)
          /\ UNCHANGED <<input_stream, output_stream, is_running>>
    /\ UNCHANGED <<chanVars, mixVars, clientVars, bridgeVars, ringVars, stub, otherVars,
                   nsent, curSeq, preStop, ranBefore>>

\* Stop takes audio_state.lock() only after both streams are dropped, when no
\* output callback is left to contend for it: the handler is one step
HandleStop ==
    /\ Recv("Stop")
    /\ dropLog' = dropLog \cup Dropped("Stop", Pause(input_stream))
                          \cup Dropped("Stop", Pause(output_stream))
    /\ input_stream' = None
    /\ output_stream' = None
    /\ is_running' = FALSE
    /\ playing_sounds' = ClearPlaying(playing_sounds)
    /\ SendEvent(Stopped)
    /\ handled' = Handling("Stop", FALSE)
    /\ applied' = applied \cup {Received.seq}
    /\ preStop' = DOMAIN playing_sounds
    /\ ranBefore' = (ranBefore \/ is_running)
    /\ contributed' = EmptyMap
    /\ UNCHANGED <<events, input_s, output_s, mic_volume, master_volume, mic_muted,
                   clientVars, bridgeVars, ringVars, stub, lockVars, tickVars, adapter,
                   appVars, nsent>>

\* a handler that sends no event: the thread is back at recv_timeout
Silent(kind) ==
    /\ Recv(kind)
    /\ handled' = Handling(kind, FALSE)
    /\ applied' = applied \cup {Received.seq}
    /\ UNCHANGED <<events, pc, pending, input_stream, output_stream, input_s,
                   output_s, is_running, clientVars, bridgeVars, ringVars, stub, otherVars,
                   nsent, dropLog, ranBefore>>

\* HashMap::insert: an entry already stored under the key is replaced
Insert_KeepOld(ps, id, sound) ==
    [x \in DOMAIN ps \cup {id} |-> IF x \in DOMAIN ps THEN ps[x] ELSE sound]
Insert(ps, id, sound) ==
    [x \in DOMAIN ps \cup {id} |-> IF x = id THEN sound ELSE ps[x]]

Remove(ps, id) == [x \in DOMAIN ps \ {id} |-> ps[x]]

\* a handler whose body runs inside `if let Ok(mut state) = audio_state.lock()`:
\* lock() waits for the mutex, and the guard is dropped in the next step
Locking(kind) ==
    /\ Recv(kind)
    /\ state_lock = "free"
    /\ state_lock' = "engine"
    /\ underLock' = [cmd |-> Received, before |-> playing_sounds]
    /\ tick' = IF render.left > 0 \/ render.out # <<>>
               THEN [tick EXCEPT !.touched = @ \cup {Received.id}]
               ELSE tick
    /\ pc' = "unlock"
    /\ handled' = Handling(kind, FALSE)
    /\ applied' = applied \cup {Received.seq}
    /\ UNCHANGED <<appVars, events, pending, input_stream, output_stream, input_s, output_s,
                   is_running, mic_volume, master_volume, mic_muted, clientVars,
                   bridgeVars, ringVars, stub, nrendered, adapter, nsent,
                   dropLog, ranBefore>>

\* PlayingSound { samples, position: 0 }
PlayingSound(samples) == [samples |-> samples, position |-> 0]

\* nothing of a sound is mixed in yet; running: is_running when it was inserted
NothingMixed(running) == [mixed |-> <<>>, skipped |-> FALSE, running |-> running]

HandlePlaySound ==
    /\ Locking("PlaySound")
    /\ playing_sounds' = Insert(playing_sounds, Received.id, PlayingSound(Received.samples))
    /\ inserted' = [x \in DOMAIN inserted \cup {Received.id} |->
                        IF x = Received.id THEN Received.samples ELSE inserted[x]]
    /\ preStop' = preStop \ {Received.id}
    /\ contributed' = Insert(contributed, Received.id, NothingMixed(is_running))

HandleStopSound ==
    /\ Locking("StopSound")
    /\ playing_sounds' = Remove(playing_sounds, Received.id)
    /\ contributed' = Remove(contributed, Received.id)
    /\ UNCHANGED <<inserted, preStop>>

\* the MutexGuard goes out of scope and the thread is back at recv_timeout
UnlockState ==
    /\ pc = "unlock"
    /\ pc' = "recv"
    /\ state_lock' = "free"
    /\ UNCHANGED <<appVars, chanVars, pending, input_stream, output_stream, input_s, output_s,
                   is_running, mixVars, clientVars, bridgeVars, ringVars, stub,
                   inserted, underLock, tickVars, adapter, contributed, histVars>>

\* f32::clamp(0.0, 2.0), in tenths
ClampVolume(v) == IF v < 0 THEN 0 ELSE IF v > 20 THEN 20 ELSE v

HandleSetMicVolume ==
    /\ Silent("SetMicVolume")
    /\ mic_volume' = ClampVolume(Received.volume)
    /\ UNCHANGED <<playing_sounds, master_volume, mic_muted, preStop>>

HandleSetMasterVolume ==
    /\ Silent("SetMasterVolume")
    /\ master_volume' = ClampVolume(Received.volume)
    /\ UNCHANGED <<playing_sounds, mic_volume, mic_muted, preStop>>

HandleSetMicMuted ==
    /\ Silent("SetMicMuted")
    /\ mic_muted' = Received.muted
    /\ UNCHANGED <<playing_sounds, mic_volume, master_volume, preStop>>

\* the thread returns: command_rx is dropped and the channel is disconnected
HandleShutdown ==
    /\ pc = "recv"
    /\ cmdq # <<>>
    /\ Received.kind = "Shutdown"
    /\ curSeq' = Received.seq
    /\ cmdq' = <<>>
    /\ dropLog' = dropLog \cup Dropped("Shutdown", Pause(input_stream))
                          \cup Dropped("Shutdown", Pause(output_stream))
    /\ input_stream' = None
    /\ output_stream' = None
    /\ is_running' = FALSE
    /\ pc' = "done"
    /\ handled' = Handling("Shutdown", FALSE)
    /\ applied' = applied \cup {Received.seq}
    /\ UNCHANGED <<events, pending, input_s, output_s, mixVars, clientVars,
                   bridgeVars, ringVars, stub, otherVars, nsent, preStop, ranBefore>>

\* event_tx.send(ev) on the bounded channel: it waits while the channel is full
EmitEvent ==
    /\ pc = "emit"
    /\ Len(events) < EvCap
    /\ events' = Append(events, pending)
    /\ pending' = NoEvent
    /\ pc' = "recv"
    /\ handled' = [handled EXCEPT !.evs = Append(@, pending.kind)]
    /\ UNCHANGED <<cmdq, input_stream, output_stream, input_s, output_s, is_running,
                   mixVars, clientVars, bridgeVars, ringVars, stub, otherVars,
                   nsent, curSeq, applied, dropLog, preStop, ranBefore>>

\* The Timeout arm of recv_timeout changes nothing.  The Disconnected arm is
\* never taken: the only Sender belongs to the AudioEngine, whose Drop sends
\* Shutdown and joins the thread before the Sender is dropped.
EngineThread ==
    \/ HandleStart
    \/ BuildInputStream
    \/ BuildOutputStream
    \/ PlayInputStream
    \/ PlayOutputStream
    \/ HandleStop
    \/ HandlePlaySound
    \/ HandleStopSound
    \/ UnlockState
    \/ HandleSetMicVolume
    \/ HandleSetMasterVolume
    \/ HandleSetMicMuted
    \/ HandleShutdown
    \/ EmitEvent

(***************************************************************************)
(* The AudioEngine value and its owner                                     *)
(***************************************************************************)
\* command_tx.send(command): waits while the channel is full, fails once the
\* engine thread has returned and dropped command_rx
send_command(c) ==
    \/ /\ pc # "done"
       /\ Len(cmdq) < CmdCap
       /\ cmdq' = Append(cmdq, [c EXCEPT !.seq = nsent + 1])
       /\ nsent' = nsent + 1
       /\ sendResult' = "ok"
    \/ /\ pc = "done"
       /\ sendResult' = "err"
       /\ UNCHANGED <<cmdq, nsent>>

StartCommands ==
    {Start("default", "default"), Start("ghost", "cable"), Start("mic", "ghost")}

SoundIds == {"a"}

Commands ==
    StartCommands
        \cup {Stop, SetMicVolume(30), SetMasterVolume(5), SetMicMuted(TRUE)}
        \cup {PlaySound(id, <<100, 100>>) : id \in SoundIds}
        \cup {StopSound(id) : id \in SoundIds}

\* the owner calls send_command with one of the commands cmds
Send(cmds) ==
    /\ client \in {"idle", "joined"}
    /\ nsent < MaxSends
    /\ \E c \in cmds : send_command(c)
    /\ UNCHANGED <<events, engVars, mixVars, client, bridgeVars, ringVars, stub, otherVars,
                   curSeq, applied, handled, dropLog, preStop, ranBefore>>

SendCommand == Send(Commands)

\* the commands sent to a running engine while its callbacks run
MixCommands ==
    {PlaySound("a", <<50, 50, 50>>), PlaySound("a", <<>>), PlaySound("b", <<100>>),
     StopSound("a"), SetMasterVolume(5)}

MixSend == Send(MixCommands)

\* the owner mutes the microphone of a running engine
MuteCommands == {SetMicMuted(TRUE)}

MuteSend == Send(MuteCommands)

\* event_rx.try_recv().ok()
try_recv_event ==
    /\ events # <<>>
    /\ events' = Tail(events)

TryRecvEvent ==
    /\ client \in {"idle", "joined"}
    /\ try_recv_event
    /\ UNCHANGED <<cmdq, engVars, mixVars, clientVars, bridgeVars, ringVars, stub, otherVars,
                   histVars>>

\* shutdown(&mut self): `let _ = self.command_tx.send(Shutdown)`, then join
ShutdownSend ==
    /\ client = "idle"
    /\ send_command(Shutdown)
    /\ client' = "join"
    /\ UNCHANGED <<events, engVars, mixVars, bridgeVars, ringVars, stub, otherVars,
                   curSeq, applied, handled, dropLog, preStop, ranBefore>>

ShutdownJoin ==
    /\ client = "join"
    /\ pc = "done"
    /\ client' = "joined"
    /\ UNCHANGED <<chanVars, engVars, mixVars, sendResult, bridgeVars, ringVars, stub, otherVars,
                   histVars>>

Owner ==
    \/ SendCommand
    \/ TryRecvEvent
    \/ ShutdownSend
    \/ ShutdownJoin

(***************************************************************************)
(* The Tauri application around the engine: command handlers lock the      *)
(* engine's mutex and send (application/commands.rs); a forwarding thread  *)
(* drains the events when try_lock succeeds (lib.rs).                      *)
(***************************************************************************)
BridgeSends == 6

\* number of Start commands the start_mixing calls may send
StartSends == 3

\* capacity of the preview command channel (16 in the code) and number of
\* Play and Stop commands sent to it
PreviewCap == 2
PreviewSends == 3

\* number of operations applied to a Sample one after the other
MaxOps == 2

\* the hop of the shifters, 512 in the code, and the frame of four hops; the
\* samples a shifter is given in all and in one call of process
HopSize == 2
MaxInput == 6
MaxChunk == 3

\* longest AudioBuffer and largest number of mixer channels
MaxBufLen == 2
MaxChannels == 3

CtlThreads == {"c1", "c2"}

BridgeCommands == {Start("default", "default"), Stop}

CtlIdle == [at |-> "idle", cmd |-> Stop]

\* `let engine = state.audio_engine.lock().await;`
CtlLock(t) ==
    /\ ctl[t].at = "idle"
    /\ lock = "free"
    /\ nsent < BridgeSends
    /\ \E c \in BridgeCommands : ctl' = [ctl EXCEPT ![t] = [at |-> "send", cmd |-> c]]
    /\ lock' = t
    /\ UNCHANGED <<chanVars, engVars, mixVars, clientVars, ringVars, stub, otherVars, histVars>>

\* `engine.send_command(..)`; the guard is released when the handler returns
CtlSend(t) ==
    /\ ctl[t].at = "send"
    /\ send_command(ctl[t].cmd)
    /\ ctl' = [ctl EXCEPT ![t] = CtlIdle]
    /\ lock' = "free"
    /\ UNCHANGED <<events, engVars, mixVars, client, ringVars, stub, otherVars,
                   curSeq, applied, handled, dropLog, preStop, ranBefore>>

\* `if let Ok(engine) = engine_for_levels.try_lock()`; when it fails the
\* thread sleeps 16 ms and tries again, which changes nothing
FwdTryLock ==
    /\ lock = "free"
    /\ lock' = "fwd"
    /\ UNCHANGED <<chanVars, engVars, mixVars, clientVars, ctl, ringVars, stub, otherVars, histVars>>

\* `while let Some(event) = engine.try_recv_event()`: a LevelUpdate is emitted
\* as "audio-levels", every other event takes the `_ => {}` arm
FwdRecv ==
    /\ lock = "fwd"
    /\ try_recv_event
    /\ frontend' = IF Head(events).kind = "LevelUpdate"
                   THEN frontend \cup {Head(events)}
                   ELSE frontend
    /\ UNCHANGED <<cmdq, engVars, mixVars, clientVars, bridgeVars, ringVars, stub, audioVars, sideVars,
                   is_mixing, returned, histVars>>

FwdRelease ==
    /\ lock = "fwd"
    /\ events = <<>>
    /\ lock' = "free"
    /\ UNCHANGED <<chanVars, engVars, mixVars, clientVars, ctl, ringVars, stub, otherVars, histVars>>

(***************************************************************************)
(* application/commands.rs: start_mixing, called from the webview          *)
(***************************************************************************)
\* settings.audio.input_device_id and output_device_id: None, or the ids the
\* user selected
NoDevice == "unset"

SelectedDevices == {NoDevice, "default", "ghost"}

Result(sent, result) == [sent |-> sent, result |-> result]

\* `.ok_or_else(|| "No input device selected")?` and the same for the output
\* device: the handler returns before it takes the engine lock
StartMixingRefused(t) ==
    /\ ctl[t].at = "idle"
    /\ \E i, o \in SelectedDevices :
        /\ i = NoDevice \/ o = NoDevice
        /\ returned' = returned \cup {Result(FALSE, "Err")}
    /\ UNCHANGED <<chanVars, engVars, mixVars, clientVars, bridgeVars, ringVars, stub,
                   audioVars, sideVars, is_mixing, frontend, histVars>>

\* `let engine = state.audio_engine.lock().await;`
StartMixingLock(t) ==
    /\ ctl[t].at = "idle"
    /\ lock = "free"
    /\ nsent < StartSends
    /\ \E i, o \in SelectedDevices \ {NoDevice} :
        ctl' = [ctl EXCEPT ![t] = [at |-> "start", cmd |-> Start(i, o)]]
    /\ lock' = t
    /\ UNCHANGED <<chanVars, engVars, mixVars, clientVars, ringVars, stub, otherVars, histVars>>

\* `engine.send_command(Start{..}).map_err(..)?`, then `*is_mixing = true` and
\* `Ok(())`; the guard is released when the handler returns
StartMixingSend(t) ==
    /\ ctl[t].at = "start"
    /\ send_command(ctl[t].cmd)
    /\ IF sendResult' = "ok"
       THEN /\ is_mixing' = TRUE
            /\ returned' = returned \cup {Result(TRUE, "Ok")}
       ELSE /\ returned' = returned \cup {Result(FALSE, "Err")}
            /\ UNCHANGED is_mixing
    /\ ctl' = [ctl EXCEPT ![t] = CtlIdle]
    /\ lock' = "free"
    /\ UNCHANGED <<events, engVars, mixVars, client, ringVars, stub, audioVars, sideVars, frontend,
                   curSeq, applied, handled, dropLog, preStop, ranBefore>>

StartMixing ==
    \/ \E t \in CtlThreads : StartMixingRefused(t)
    \/ \E t \in CtlThreads : StartMixingLock(t)
    \/ \E t \in CtlThreads : StartMixingSend(t)

\* the engine thread while only Start commands are sent
StartEngine ==
    \/ HandleStart
    \/ BuildInputStream
    \/ BuildOutputStream
    \/ PlayInputStream
    \/ PlayOutputStream
    \/ EmitEvent

StartNext ==
    \/ StartEngine
    \/ StartMixing
    \/ FwdTryLock
    \/ FwdRecv
    \/ FwdRelease

BridgeEngine ==
    \/ HandleStart
    \/ BuildInputStream
    \/ BuildOutputStream
    \/ PlayInputStream
    \/ PlayOutputStream
    \/ HandleStop
    \/ EmitEvent

BridgeNext ==
    \/ BridgeEngine
    \/ \E t \in CtlThreads : CtlLock(t)
    \/ \E t \in CtlThreads : CtlSend(t)
    \/ FwdTryLock
    \/ FwdRecv
    \/ FwdRelease

(***************************************************************************)
(* The engine skeleton of audio/engine.rs, the one main.rs constructs.     *)
(* Volumes are Volume values, already clamped to [0, 1], in tenths.        *)
(***************************************************************************)
SkeletonVolumes == {0, 5, 10}

SkeletonCommands == {"PlaySound", "StopSound", "StopAllSounds", "SelectInputDevice"}

\* new(): `let (command_tx, _command_rx) = mpsc::unbounded_channel();` and
\* _command_rx goes out of scope when new returns
SkeletonNew ==
    [state |-> "Stopped", command_rx |-> "dropped", result |-> "none",
     master_volume |-> 10, mic_volume |-> 5, effects_volume |-> 5]

\* command_tx.send(command) on the unbounded channel
skeleton_send(e) == IF e.command_rx = "open" THEN "ok" ELSE "Thread"

SkeletonStart ==
    /\ stub' = IF stub.state # "Stopped"
               THEN [stub EXCEPT !.result = "InvalidOperation"]
               ELSE [stub EXCEPT !.state = "Running", !.result = "ok"]
    /\ UNCHANGED <<chanVars, engVars, mixVars, clientVars, bridgeVars, ringVars, otherVars, histVars>>

SkeletonStop ==
    /\ stub' = [stub EXCEPT !.state = "Stopped", !.result = "ok"]
    /\ UNCHANGED <<chanVars, engVars, mixVars, clientVars, bridgeVars, ringVars, otherVars, histVars>>

\* play_sound, stop_sound, stop_all_sounds, select_input_device
SkeletonSendCommand ==
    /\ \E c \in SkeletonCommands : stub' = [stub EXCEPT !.result = skeleton_send(stub)]
    /\ UNCHANGED <<chanVars, engVars, mixVars, clientVars, bridgeVars, ringVars, otherVars, histVars>>

SkeletonSetMasterVolume ==
    /\ \E v \in SkeletonVolumes :
        stub' = [stub EXCEPT !.master_volume = v, !.result = skeleton_send(stub)]
    /\ UNCHANGED <<chanVars, engVars, mixVars, clientVars, bridgeVars, ringVars, otherVars, histVars>>

SkeletonSetMicVolume ==
    /\ \E v \in SkeletonVolumes :
        stub' = [stub EXCEPT !.mic_volume = v, !.result = skeleton_send(stub)]
    /\ UNCHANGED <<chanVars, engVars, mixVars, clientVars, bridgeVars, ringVars, otherVars, histVars>>

SkeletonSetEffectsVolume ==
    /\ \E v \in SkeletonVolumes :
        stub' = [stub EXCEPT !.effects_volume = v, !.result = skeleton_send(stub)]
    /\ UNCHANGED <<chanVars, engVars, mixVars, clientVars, bridgeVars, ringVars, otherVars, histVars>>

SkeletonNext ==
    \/ SkeletonStart
    \/ SkeletonStop
    \/ SkeletonSendCommand
    \/ SkeletonSetMasterVolume
    \/ SkeletonSetMicVolume
    \/ SkeletonSetEffectsVolume

(***************************************************************************)
(* The ring between the capture callback and the render callback.          *)
(* HeapRb keeps a read and a write index that run modulo twice the         *)
(* capacity, so that a full ring and an empty one differ.                  *)
(***************************************************************************)
Occupied(r) == (r.write - r.read + 2 * RingCap) % (2 * RingCap)

IsFull(r) == Occupied(r) = RingCap

IsEmpty(r) == Occupied(r) = 0

Store(r, x) ==
    [r EXCEPT !.buf[r.write % RingCap] = x, !.write = (r.write + 1) % (2 * RingCap)]

\* prod.try_push(x): a full ring refuses the sample
try_push_Overwrite(r, x) == Store(r, x)
try_push_DropOldest(r, x) ==
    IF Occupied(r) = RingCap
    THEN Store([r EXCEPT !.read = (r.read + 1) % (2 * RingCap)], x)
    ELSE Store(r, x)
try_push(r, x) == IF IsFull(r) THEN r ELSE Store(r, x)

\* cons.try_pop(): None on an empty ring
Front(r) == r.buf[r.read % RingCap]

\* `cons.try_pop().unwrap_or(0.0)`
PopOr_Stale(r) == Front(r)
PopOr(r) == IF IsEmpty(r) THEN 0 ELSE Front(r)

try_pop(r) == IF IsEmpty(r) THEN r ELSE [r EXCEPT !.read = (r.read + 1) % (2 * RingCap)]

\* line 265: `if muted { 0.0 } else { sample * volume }`
Processed(sample, muted, volume) == IF muted THEN 0 ELSE (sample * volume) \div 10

CaptureData == {<<10, -20>>, <<30>>}

RenderSizes == {1, 2}

CaptureIdle == [data |-> <<>>, muted |-> FALSE, volume |-> 0]

RenderIdle == [left |-> 0, out |-> <<>>, master |-> 0]

\* the samples a ring holds, oldest first
Contents(r) == [i \in 1..Occupied(r) |-> r.buf[(r.read + i - 1) % RingCap]]

\* f32::clamp(-1.0, 1.0), in hundredths
Clamp(x) == IF x < -100 THEN -100 ELSE IF x > 100 THEN 100 ELSE x

\* `remaining.min(data.len())`
ToMix(sound, n) ==
    LET remaining == Len(sound.samples) - sound.position
    IN  IF remaining < n THEN remaining ELSE n

\* the inner loop over `data.iter_mut().take(to_mix)` for one sound
MixSound_NoClamp(data, sound) ==
    [i \in 1..Len(data) |->
        IF i <= ToMix(sound, Len(data))
        THEN data[i] + sound.samples[sound.position + i]
        ELSE data[i]]
MixSound(data, sound) ==
    [i \in 1..Len(data) |->
        IF i <= ToMix(sound, Len(data))
        THEN Clamp(data[i] + sound.samples[sound.position + i])
        ELSE data[i]]

\* `for (id, sound) in state.playing_sounds.iter_mut()`, in the order the
\* HashMap yields its entries
RECURSIVE MixSounds(_, _, _)
MixSounds(data, ps, order) ==
    IF order = <<>> THEN data
    ELSE MixSounds(MixSound(data, ps[Head(order)]), ps, Tail(order))

\* the orders in which a HashMap may yield the keys S
Orders(S) ==
    {f \in [1..Cardinality(S) -> S] : \A x \in S : \E i \in DOMAIN f : f[i] = x}

\* `sound.position += to_mix` for every sound
Advanced_Stay(ps, n) == ps
Advanced(ps, n) ==
    [id \in DOMAIN ps |-> [ps[id] EXCEPT !.position = @ + ToMix(ps[id], n)]]

\* the ids pushed to `finished`
Finished_All(ps) == DOMAIN ps
Finished(ps) == {id \in DOMAIN ps : ps[id].position >= Len(ps[id].samples)}

\* playing_sounds once the sounds are mixed into n samples and the finished
\* ones removed
AfterMix(ps, n) ==
    LET adv == Advanced(ps, n)
    IN  [id \in DOMAIN adv \ Finished(adv) |-> adv[id]]

\* `(*sample * master_vol).clamp(-1.0, 1.0)` for every sample
ApplyMaster(data, master) ==
    [i \in 1..Len(data) |-> Clamp((data[i] * master) \div 10)]

TickIdle ==
    [base |-> 0, ring0 |-> <<>>, pushed |-> FALSE, present |-> {}, done |-> FALSE,
     locked |-> FALSE, mixed |-> {}, moved |-> FALSE, under |-> <<>>, mic |-> <<>>,
     master |-> 0, out |-> <<>>, holder |-> "free", touched |-> {}, muted |-> FALSE]

\* the input callback starts: it loads mic_muted and mic_volume once and
\* takes the producer's mutex, which no other thread ever locks
CaptureBegin ==
    /\ input_stream = "playing"
    /\ capture = CaptureIdle
    /\ \E data \in CaptureData :
        /\ Len(pushLog) + Len(data) <= MaxCapture
        /\ capture' = [data |-> data, muted |-> mic_muted, volume |-> mic_volume]
    /\ UNCHANGED <<chanVars, engVars, mixVars, clientVars, bridgeVars, ring, render,
                   pushLog, popLog, stub, otherVars, histVars>>

\* one turn of `for &sample in data`; the callback returns after the last
CapturePush ==
    /\ capture.data # <<>>
    /\ LET processed == Processed(Head(capture.data), capture.muted, capture.volume)
       IN  /\ ring' = try_push(ring, processed)
           /\ pushLog' = Append(pushLog, processed)
    /\ capture' = IF Len(capture.data) = 1 THEN CaptureIdle
                  ELSE [capture EXCEPT !.data = Tail(@)]
    /\ tick' = [tick EXCEPT !.pushed = @ \/ (render.left > 0 /\ ring' # ring)]
    /\ UNCHANGED <<appVars, chanVars, engVars, mixVars, clientVars, bridgeVars, render, popLog,
                   stub, lockVars, nrendered, adapter, contributed, histVars>>

\* the output callback starts on a buffer of n samples: it loads
\* master_volume once
RenderBegin ==
    /\ output_stream = "playing"
    /\ render = RenderIdle
    /\ \E n \in RenderSizes :
        /\ nrendered + n <= MaxRendered
        /\ render' = [left |-> n, out |-> <<>>, master |-> master_volume]
    /\ tick' = [TickIdle EXCEPT !.base = nrendered, !.ring0 = Contents(ring),
                                !.master = master_volume, !.muted = mic_muted,
                                !.present = IF state_lock = "free"
                                            THEN DOMAIN playing_sounds ELSE {}]
    /\ UNCHANGED <<appVars, chanVars, engVars, mixVars, clientVars, bridgeVars, ring, capture,
                   pushLog, popLog, stub, lockVars, nrendered, adapter, contributed,
                   histVars>>

\* one turn of `*sample = cons.try_pop().unwrap_or(0.0)`
RenderPop ==
    /\ render.left > 0
    /\ ring' = try_pop(ring)
    /\ render' = [render EXCEPT !.left = @ - 1,
                                !.out = Append(@, PopOr(ring))]
    /\ popLog' = IF IsEmpty(ring) THEN popLog ELSE Append(popLog, Front(ring))
    /\ tick' = [tick EXCEPT !.under = Append(@, IsEmpty(ring))]
    /\ UNCHANGED <<appVars, chanVars, engVars, mixVars, clientVars, bridgeVars, capture, pushLog,
                   stub, lockVars, nrendered, adapter, contributed, histVars>>

\* the samples of a sound that MixSound adds to a buffer of n samples
Contribution(sound, n) ==
    [i \in 1..ToMix(sound, n) |-> sound.samples[sound.position + i]]

\* the sounds of ps have been mixed into n samples
Mixed(c, ps, n) ==
    [id \in DOMAIN c |->
        IF id \in DOMAIN ps
        THEN [c[id] EXCEPT !.mixed = @ \o Contribution(ps[id], n)]
        ELSE c[id]]

\* the output callback did not get the mutex
Skipped(c, ps) ==
    [id \in DOMAIN c |-> IF id \in DOMAIN ps THEN [c[id] EXCEPT !.skipped = TRUE] ELSE c[id]]

\* audio_state.try_lock() by the output callback
try_lock_Always(holder) == TRUE
try_lock(holder) == holder = "free"

\* the rest of the output callback: audio_state.try_lock() and, when it
\* succeeds, the sounds mixed in and the finished ones removed; then the
\* master volume; the buffer is handed to the device
RenderEnd ==
    /\ render.left = 0
    /\ render # RenderIdle
    /\ \E order \in Orders(DOMAIN playing_sounds) :
        LET locked == try_lock(state_lock)
            n == Len(render.out)
            data == IF locked THEN MixSounds(render.out, playing_sounds, order)
                    ELSE render.out
        IN  /\ playing_sounds' = IF locked THEN AfterMix(playing_sounds, n)
                                  ELSE playing_sounds
            /\ tick' = [tick EXCEPT !.done = TRUE, !.locked = locked,
                                    !.holder = state_lock,
                                    !.mixed = IF locked THEN DOMAIN playing_sounds ELSE {},
                                    !.moved = (playing_sounds' # playing_sounds),
                                    !.mic = render.out,
                                    !.out = ApplyMaster(data, render.master)]
            /\ nrendered' = nrendered + n
            /\ contributed' = IF locked THEN Mixed(contributed, playing_sounds, n)
                               ELSE Skipped(contributed, playing_sounds)
    /\ render' = RenderIdle
    /\ UNCHANGED <<appVars, chanVars, engVars, mic_volume, master_volume, mic_muted, clientVars,
                   bridgeVars, ring, capture, pushLog, popLog, stub, lockVars, adapter, histVars>>

RingNext ==
    \/ CaptureBegin
    \/ CapturePush
    \/ RenderBegin
    \/ RenderPop
    \/ RenderEnd

(***************************************************************************)
(* adapters/cpal_output.rs: CpalAudioOutput, an output stream fed through  *)
(* a ring of its own.  The output callback of audio/virtual_device.rs has  *)
(* the same body.                                                          *)
(***************************************************************************)
AdapterData == {<<10, -20>>, <<30>>, <<40, 50, 60>>}

\* CpalAudioOutput::new()
AdapterNew == [stream |-> None, ring |-> NewRing, before |-> <<>>, out |-> <<>>]

\* producer.push_slice(samples): the samples that fit, in order
RECURSIVE push_slice(_, _)
push_slice(r, samples) ==
    IF samples = <<>> \/ IsFull(r) THEN r
    ELSE push_slice(Store(r, Head(samples)), Tail(samples))

\* the number of samples consumer.pop_slice(data) reads into n slots
PopCount(r, n) == IF Occupied(r) < n THEN Occupied(r) ELSE n

\* the ring after consumer.pop_slice(data)
pop_slice(r, n) == [r EXCEPT !.read = (r.read + PopCount(r, n)) % (2 * RingCap)]

\* `for sample in &mut data[read..] { *sample = 0.0 }` after pop_slice
Drained(r, n) ==
    [i \in 1..n |-> IF i <= PopCount(r, n) THEN Contents(r)[i] ELSE 0]

\* write(buffer): what does not fit is dropped
AdapterWrite ==
    /\ adapter.stream = "playing"
    /\ \E samples \in AdapterData :
        adapter' = [adapter EXCEPT !.ring = push_slice(@, samples)]
    /\ UNCHANGED <<appVars, chanVars, engVars, mixVars, clientVars, bridgeVars, ringVars, stub,
                   lockVars, tickVars, contributed, histVars>>

\* the output callback on a buffer of n samples
AdapterCallback ==
    /\ adapter.stream = "playing"
    /\ \E n \in RenderSizes :
        adapter' = [adapter EXCEPT !.ring = pop_slice(@, n),
                                  !.before = Contents(adapter.ring),
                                  !.out = Drained(adapter.ring, n)]
    /\ UNCHANGED <<appVars, chanVars, engVars, mixVars, clientVars, bridgeVars, ringVars, stub,
                   lockVars, tickVars, contributed, histVars>>

AdapterNext ==
    \/ AdapterWrite
    \/ AdapterCallback

(***************************************************************************)
(* application/preview_engine.rs: the preview engine.  One thread owns the *)
(* sink, the output stream and its handle; current_pad_id is shared with   *)
(* the PreviewEngine value; events go to the webview.                      *)
(***************************************************************************)
Play(path, device_name, pad_id) ==
    [kind |-> "Play", path |-> path, device_name |-> device_name, pad_id |-> pad_id]

PreviewStop == [kind |-> "Stop", path |-> "", device_name |-> "", pad_id |-> ""]

PreviewShutdown == [kind |-> "Shutdown", path |-> "", device_name |-> "", pad_id |-> ""]

PreviewCommands ==
    {Play("x.wav", "default", "p1"), Play("y.wav", "headset", "p2"), PreviewStop}

PreviewEvent(name, pad_id) == [name |-> name, pad_id |-> pad_id]

\* app_handle.emit(name, &pad_id)
Emitted(name, pad_id) == Append(preview_events, PreviewEvent(name, pad_id))

\* what cpal::default_host() offers when a Play is handled
PreviewHosts ==
    {[default |-> None, devices |-> {}],
     [default |-> "speakers", devices |-> {"speakers"}],
     [default |-> "speakers", devices |-> {"speakers", "headset"}]}

find_output_device(host, name) ==
    IF name = "default" \/ name = ""
    THEN host.default
    ELSE IF name \in host.devices THEN name ELSE host.default

\* the step at which a Play can fail once the device is found, or "ok"
PlayOutcomes == {"ok", "no_stream", "no_sink", "no_file", "no_decode"}

\* Option<Sink>::None
NoSink == [path |-> "", empty |-> FALSE]

NoLocals == [cmd |-> PreviewStop, stream |-> None, stream_handle |-> None, sink |-> NoSink]

NoBefore == [cmd |-> "none", sink |-> NoSink, stream |-> None, pad_id |-> None, events |-> 0]

\* a Sink with one source appended; empty() turns true when the source ends
Sink(path) == [path |-> path, empty |-> FALSE]

\* `_current_stream = None`: the stream that was held is dropped
Released_Keep(held) == held

Released(held) == None

\* `pad_id.take()` with an emit even when no pad id was set
TakePadId_Always ==
    /\ current_pad_id' = None
    /\ preview_events' = Emitted("preview-stopped", current_pad_id)

\* `pad_id.take()` without the emit
TakePadId_Silent ==
    /\ current_pad_id' = None
    /\ UNCHANGED preview_events

\* `if let Some(id) = pad_id.take() { emit("preview-stopped", &id) }`
TakePadId ==
    /\ current_pad_id' = None
    /\ preview_events' = IF current_pad_id # None
                         THEN Emitted("preview-stopped", current_pad_id)
                         ELSE preview_events

PreviewReceived == Head(preview_cmdq)

PreviewRecv(kind) ==
    /\ preview_pc = "recv"
    /\ preview_cmdq # <<>>
    /\ PreviewReceived.kind = kind
    /\ preview_cmdq' = Tail(preview_cmdq)

\* PreviewEngine::send_command; shutdown(&mut self) is the last call
PreviewSend ==
    /\ preview_client = "idle"
    /\ preview_sent < PreviewSends
    /\ Len(preview_cmdq) < PreviewCap
    /\ \E c \in PreviewCommands : preview_cmdq' = Append(preview_cmdq, c)
    /\ preview_sent' = preview_sent + 1
    /\ UNCHANGED <<chanVars, engVars, mixVars, clientVars, bridgeVars, ringVars, stub,
                   audioVars, uiVars, extVars, domainVars, histVars, current_sink, current_stream,
                   current_stream_handle, current_pad_id, preview_pc, preview_locals,
                   preview_events, preview_client, preview_before, preview_handled>>

\* shutdown(): `let _ = self.command_tx.send(PreviewCommand::Shutdown)`
PreviewSendShutdown ==
    /\ preview_client = "idle"
    /\ Len(preview_cmdq) < PreviewCap
    /\ preview_cmdq' = Append(preview_cmdq, PreviewShutdown)
    /\ preview_client' = "joining"
    /\ UNCHANGED <<chanVars, engVars, mixVars, clientVars, bridgeVars, ringVars, stub,
                   audioVars, uiVars, extVars, domainVars, histVars, current_sink, current_stream,
                   current_stream_handle, current_pad_id, preview_pc, preview_locals,
                   preview_events, preview_sent, preview_before, preview_handled>>

\* shutdown(): `handle.join()`
PreviewJoin ==
    /\ preview_client = "joining"
    /\ preview_pc = "done"
    /\ preview_client' = "joined"
    /\ UNCHANGED <<chanVars, engVars, mixVars, clientVars, bridgeVars, ringVars, stub,
                   audioVars, uiVars, extVars, domainVars, histVars, preview_cmdq, current_sink,
                   current_stream, current_stream_handle, current_pad_id, preview_pc,
                   preview_locals, preview_events, preview_sent, preview_before,
                   preview_handled>>

\* the output stream's thread has played the source to its end
SourceEnds ==
    /\ current_sink # NoSink
    /\ ~current_sink.empty
    /\ current_sink' = [current_sink EXCEPT !.empty = TRUE]
    /\ UNCHANGED <<chanVars, engVars, mixVars, clientVars, bridgeVars, ringVars, stub,
                   audioVars, uiVars, extVars, domainVars, histVars, preview_cmdq, current_stream,
                   current_stream_handle, current_pad_id, preview_pc, preview_locals,
                   preview_events, preview_client, preview_sent, preview_before,
                   preview_handled>>

\* Sink::empty() that never sees the end of the source
empty_Never(sink) == FALSE

\* Sink::empty(): the source appended has been played to its end
empty(sink) == sink.empty

\* top of the loop: `if let Some(ref sink) = current_sink { if sink.empty() {..} }`
PreviewPoll ==
    /\ preview_pc = "loop"
    /\ IF current_sink # NoSink /\ empty(current_sink)
       THEN /\ TakePadId
            /\ current_sink' = NoSink
            /\ current_stream' = None
            /\ current_stream_handle' = None
       ELSE UNCHANGED <<current_sink, current_stream, current_stream_handle, current_pad_id,
                        preview_events>>
    /\ preview_pc' = "recv"
    /\ UNCHANGED <<chanVars, engVars, mixVars, clientVars, bridgeVars, ringVars, stub,
                   audioVars, uiVars, extVars, domainVars, histVars, preview_cmdq, preview_locals,
                   preview_client, preview_sent, preview_before, preview_handled>>

\* `Err(RecvTimeoutError::Timeout) => {}` after 50 ms without a command
PreviewTimeout ==
    /\ preview_pc = "recv"
    /\ preview_cmdq = <<>>
    /\ preview_pc' = "loop"
    /\ UNCHANGED <<chanVars, engVars, mixVars, clientVars, bridgeVars, ringVars, stub,
                   audioVars, uiVars, extVars, domainVars, histVars, preview_cmdq, current_sink,
                   current_stream, current_stream_handle, current_pad_id, preview_locals,
                   preview_events, preview_client, preview_sent, preview_before,
                   preview_handled>>

\* Play, first part: "Stop current preview if any"
PreviewPlayRelease ==
    /\ PreviewRecv("Play")
    /\ current_sink' = NoSink
    /\ TakePadId
    /\ current_stream' = Released(current_stream)
    /\ current_stream_handle' = Released(current_stream_handle)
    /\ preview_locals' = [NoLocals EXCEPT !.cmd = PreviewReceived]
    /\ preview_before' = [cmd |-> PreviewReceived.kind, sink |-> current_sink,
                          stream |-> current_stream, pad_id |-> current_pad_id,
                          events |-> Len(preview_events)]
    /\ preview_handled' = preview_handled + 1
    /\ preview_pc' = "open"
    /\ UNCHANGED <<chanVars, engVars, mixVars, clientVars, bridgeVars, ringVars, stub,
                   audioVars, uiVars, extVars, domainVars, histVars, preview_client, preview_sent>>

\* Play, second part: find the device, open the stream, create the sink, open
\* and decode the file, append the source.  Each failure is `continue`, which
\* drops what this part has created.
PreviewPlayOpen ==
    /\ preview_pc = "open"
    /\ \E host \in PreviewHosts, outcome \in PlayOutcomes :
        LET device == find_output_device(host, preview_locals.cmd.device_name)
        IN  IF device = None \/ outcome # "ok"
            THEN /\ preview_locals' = NoLocals
                 /\ preview_pc' = "loop"
            ELSE /\ preview_locals' = [preview_locals EXCEPT
                                          !.stream = device,
                                          !.stream_handle = device,
                                          !.sink = Sink(preview_locals.cmd.path)]
                 /\ preview_pc' = "store"
    /\ UNCHANGED <<chanVars, engVars, mixVars, clientVars, bridgeVars, ringVars, stub,
                   audioVars, uiVars, extVars, domainVars, histVars, preview_cmdq, current_sink,
                   current_stream, current_stream_handle, current_pad_id, preview_events,
                   preview_client, preview_sent, preview_before, preview_handled>>

\* Play, last part: "Store state", set current_pad_id, emit preview-started
PreviewPlayStore ==
    /\ preview_pc = "store"
    /\ current_sink' = preview_locals.sink
    /\ current_stream' = preview_locals.stream
    /\ current_stream_handle' = preview_locals.stream_handle
    /\ current_pad_id' = preview_locals.cmd.pad_id
    /\ preview_events' = Emitted("preview-started", preview_locals.cmd.pad_id)
    /\ preview_locals' = NoLocals
    /\ preview_pc' = "loop"
    /\ UNCHANGED <<chanVars, engVars, mixVars, clientVars, bridgeVars, ringVars, stub,
                   audioVars, uiVars, extVars, domainVars, histVars, preview_cmdq, preview_client,
                   preview_sent, preview_before, preview_handled>>

\* PreviewCommand::Stop
PreviewHandleStop ==
    /\ PreviewRecv("Stop")
    /\ current_sink' = NoSink
    /\ TakePadId
    /\ current_stream' = None
    /\ current_stream_handle' = None
    /\ preview_before' = [cmd |-> PreviewReceived.kind, sink |-> current_sink,
                          stream |-> current_stream, pad_id |-> current_pad_id,
                          events |-> Len(preview_events)]
    /\ preview_handled' = preview_handled + 1
    /\ preview_pc' = "loop"
    /\ UNCHANGED <<chanVars, engVars, mixVars, clientVars, bridgeVars, ringVars, stub,
                   audioVars, uiVars, extVars, domainVars, histVars, preview_locals, preview_client,
                   preview_sent>>

\* PreviewCommand::Shutdown: the sink is stopped and the thread returns, which
\* drops the stream and its handle; current_pad_id is not touched
PreviewHandleShutdown ==
    /\ PreviewRecv("Shutdown")
    /\ current_sink' = NoSink
    /\ current_stream' = None
    /\ current_stream_handle' = None
    /\ preview_pc' = "done"
    /\ UNCHANGED <<chanVars, engVars, mixVars, clientVars, bridgeVars, ringVars, stub,
                   audioVars, uiVars, extVars, domainVars, histVars, current_pad_id, preview_locals,
                   preview_events, preview_client, preview_sent, preview_before,
                   preview_handled>>

PreviewThread ==
    \/ PreviewPoll
    \/ PreviewTimeout
    \/ PreviewPlayRelease
    \/ PreviewPlayOpen
    \/ PreviewPlayStore
    \/ PreviewHandleStop
    \/ PreviewHandleShutdown

PreviewNext ==
    \/ PreviewThread
    \/ SourceEnds
    \/ PreviewSend
    \/ PreviewSendShutdown
    \/ PreviewJoin

\* PreviewEngine::new has returned and the thread is at the top of its loop
PreviewNew ==
    /\ preview_cmdq = <<>>
    /\ current_sink = NoSink
    /\ current_stream = None
    /\ current_stream_handle = None
    /\ current_pad_id = None
    /\ preview_pc = "loop"
    /\ preview_locals = NoLocals
    /\ preview_events = <<>>
    /\ preview_client = "idle"
    /\ preview_sent = 0
    /\ preview_before = NoBefore
    /\ preview_handled = 0

(***************************************************************************)
(* domain/audio/sample.rs: Sample, a newtype around f32.  An f32 is NaN,   *)
(* an infinity, or a finite value counted in units of 1 / i16::MAX, so     *)
(* that n / i16::MAX is exact; other quotients are rounded toward zero to  *)
(* that unit.                                                              *)
(***************************************************************************)
I16_MAX == 32767

I16_MIN == -32768

\* 1.0 and 0.5 in that unit
One == I16_MAX

Half == One \div 2

F(v) == [class |-> "finite", v |-> v]

NaN == [class |-> "nan", v |-> 0]

PosInf == [class |-> "inf", v |-> 1]

Sgn(v) == IF v > 0 THEN 1 ELSE IF v < 0 THEN -1 ELSE 0

Quot(n, d) == IF n >= 0 THEN n \div d ELSE -((-n) \div d)

\* position of a non-NaN value in the order of f32
Ord(x) == IF x.class = "inf" THEN x.v * (One * One) ELSE x.v

\* a < b on f32: false when either side is NaN
flt(a, b) == a.class # "nan" /\ b.class # "nan" /\ Ord(a) < Ord(b)

fadd(a, b) ==
    IF a.class = "nan" \/ b.class = "nan" THEN NaN
    ELSE IF a.class = "inf" /\ b.class = "inf" THEN (IF a.v = b.v THEN a ELSE NaN)
    ELSE IF a.class = "inf" THEN a
    ELSE IF b.class = "inf" THEN b
    ELSE F(a.v + b.v)

fmul(a, b) ==
    IF a.class = "nan" \/ b.class = "nan" THEN NaN
    ELSE IF a.class = "inf" \/ b.class = "inf"
         THEN (IF Sgn(a.v) * Sgn(b.v) = 0
               THEN NaN
               ELSE [class |-> "inf", v |-> Sgn(a.v) * Sgn(b.v)])
    ELSE F(Quot(a.v * b.v, One))

\* x / 2.0
fhalf(a) == IF a.class = "finite" THEN F(Quot(a.v, 2)) ELSE a

\* f32::clamp: `if x < min { x = min } if x > max { x = max } x`
clamp(x, min, max) ==
    LET y == IF flt(x, min) THEN min ELSE x
    IN  IF flt(max, y) THEN max ELSE y

\* Sample::new
Sample_new(value) == clamp(value, F(-One), F(One))

silence == F(0)

\* Sample::mix that adds without halving
Sample_mix_Sum(a, b) == Sample_new(fadd(a, b))

\* Sample::mix
Sample_mix(a, b) == Sample_new(fhalf(fadd(a, b)))

mix_weighted(a, b, self_weight, other_weight) ==
    Sample_new(fadd(fmul(a, self_weight), fmul(b, other_weight)))

\* Sample::apply_gain
Sample_apply_gain(a, gain) == Sample_new(fmul(a, gain))

\* impl From<f32> for Sample
From_f32(value) == Sample_new(value)

\* impl From<i16> for Sample: `value as f32 / i16::MAX as f32`
From_i16(value) == Sample_new(F(Quot(value * One, I16_MAX)))

\* f32 values given to the operations: -1.5, -1, -0.5, 0, 0.5, 1, 2, NaN, inf
RawFloats ==
    {F(-(One + Half)), F(-One), F(-Half), F(0), F(Half), F(One), F(2 * One),
     NaN, PosInf}

\* weights given to mix_weighted: 0.5, 1 and inf
Weights == {F(Half), F(One), PosInf}

I16s == {I16_MIN, -I16_MAX, 0, 1, I16_MAX}

SampleOp(op, arg, value) ==
    [op |-> op, arg |-> arg, value |-> value, count |-> sample_op.count + 1]

SampleNew ==
    /\ sample_op.count < MaxOps
    /\ \E x \in RawFloats : sample_op' = SampleOp("new", x, Sample_new(sample_op.arg))
    /\ UNCHANGED <<chanVars, engVars, mixVars, clientVars, bridgeVars, ringVars, stub,
                   audioVars, uiVars, extVars, previewVars, buffers, mixer_config, histVars>>

SampleFromF32 ==
    /\ sample_op.count < MaxOps
    /\ \E x \in RawFloats : sample_op' = SampleOp("from_f32", x, From_f32(sample_op.arg))
    /\ UNCHANGED <<chanVars, engVars, mixVars, clientVars, bridgeVars, ringVars, stub,
                   audioVars, uiVars, extVars, previewVars, buffers, mixer_config, histVars>>

SampleFromI16 ==
    /\ sample_op.count < MaxOps
    /\ \E x \in RawFloats, n \in I16s : sample_op' = SampleOp("from_i16", x, From_i16(n))
    /\ UNCHANGED <<chanVars, engVars, mixVars, clientVars, bridgeVars, ringVars, stub,
                   audioVars, uiVars, extVars, previewVars, buffers, mixer_config, histVars>>

\* self.mix(&other), other built from the f32 given
SampleMix ==
    /\ sample_op.count < MaxOps
    /\ \E x \in RawFloats :
        sample_op' = SampleOp("mix", x, Sample_mix(sample_op.value, Sample_new(sample_op.arg)))
    /\ UNCHANGED <<chanVars, engVars, mixVars, clientVars, bridgeVars, ringVars, stub,
                   audioVars, uiVars, extVars, previewVars, buffers, mixer_config, histVars>>

SampleMixWeighted ==
    /\ sample_op.count < MaxOps
    /\ \E x \in RawFloats, w1, w2 \in Weights :
        sample_op' = SampleOp("mix_weighted", x,
                           mix_weighted(sample_op.value, Sample_new(sample_op.arg), w1, w2))
    /\ UNCHANGED <<chanVars, engVars, mixVars, clientVars, bridgeVars, ringVars, stub,
                   audioVars, uiVars, extVars, previewVars, buffers, mixer_config, histVars>>

SampleApplyGain ==
    /\ sample_op.count < MaxOps
    /\ \E x \in RawFloats :
        sample_op' = SampleOp("apply_gain", x, Sample_apply_gain(sample_op.value, sample_op.arg))
    /\ UNCHANGED <<chanVars, engVars, mixVars, clientVars, bridgeVars, ringVars, stub,
                   audioVars, uiVars, extVars, previewVars, buffers, mixer_config, histVars>>

SampleNext ==
    \/ SampleNew
    \/ SampleFromF32
    \/ SampleFromI16
    \/ SampleMix
    \/ SampleMixWeighted
    \/ SampleApplyGain

\* Sample::default() and no operation applied
SampleIdle == [op |-> "none", arg |-> silence, value |-> silence, count |-> 0]

(***************************************************************************)
(* domain/audio/buffer.rs: AudioBuffer                                     *)
(***************************************************************************)
AudioBuffer(samples, channels, sample_rate) ==
    [samples |-> samples, channels |-> channels, sample_rate |-> sample_rate]

from_raw_f32(samples, channels, sample_rate) ==
    AudioBuffer([i \in 1..Len(samples) |-> Sample_new(samples[i])], channels, sample_rate)

Min(a, b) == IF a < b THEN a ELSE b

Ok(buffer) == [err |-> "none", buffer |-> buffer]

Err(e) == [err |-> e, buffer |-> AudioBuffer(<<>>, 0, 0)]

\* AudioBuffer::mix
AudioBuffer_mix(self, other) ==
    IF self.channels # other.channels THEN Err("ChannelMismatch")
    ELSE IF self.sample_rate # other.sample_rate THEN Err("SampleRateMismatch")
    ELSE LET min_len == Min(Len(self.samples), Len(other.samples))
             mixed == [i \in 1..min_len |-> Sample_mix(self.samples[i], other.samples[i])]
         IN  Ok(AudioBuffer(mixed, self.channels, self.sample_rate))

\* raw samples the buffers are built from: -1.5, 0.5 and NaN
BufferFloats == {F(-(One + Half)), F(Half), NaN}

RawSamples == UNION {[1..n -> BufferFloats] : n \in 0..MaxBufLen}

ChannelCounts == {1, 2}

SampleRates == {44100, 48000}

Buffers ==
    {from_raw_f32(r, c, s) : r \in RawSamples, c \in ChannelCounts, s \in SampleRates}

NoResult == [err |-> "pending", buffer |-> AudioBuffer(<<>>, 0, 0)]

\* `a.mix(&b)`
BufferMix ==
    /\ buffers.result = NoResult
    /\ buffers' = [buffers EXCEPT !.result = AudioBuffer_mix(buffers.a, buffers.b)]
    /\ UNCHANGED <<chanVars, engVars, mixVars, clientVars, bridgeVars, ringVars, stub,
                   audioVars, uiVars, extVars, previewVars, sample_op, mixer_config, histVars>>

\* `a.apply_gain(gain)` on the buffer the mix returned
BufferApplyGain ==
    /\ buffers.result.err = "none"
    /\ ~buffers.gained
    /\ \E gain \in RawFloats :
        buffers' = [buffers EXCEPT
                       !.gained = TRUE,
                       !.result.buffer.samples =
                           [i \in 1..Len(@) |-> Sample_apply_gain(@[i], gain)]]
    /\ UNCHANGED <<chanVars, engVars, mixVars, clientVars, bridgeVars, ringVars, stub,
                   audioVars, uiVars, extVars, previewVars, sample_op, mixer_config, histVars>>

BufferNext ==
    \/ BufferMix
    \/ BufferApplyGain

BuffersIdle ==
    [a |-> AudioBuffer(<<>>, 1, 44100), b |-> AudioBuffer(<<>>, 1, 44100),
     result |-> NoResult, gained |-> FALSE]

(***************************************************************************)
(* domain/mixer: MixerConfig and MixerChannel, with the channel commands   *)
(* of application/commands.rs                                              *)
(***************************************************************************)
MixerChannel(id, channel_type) ==
    [id |-> id, channel_type |-> channel_type, volume |-> F(One), muted |-> FALSE]

add_channel(config, channel) ==
    [config EXCEPT !.channels = Append(@, channel)]

\* `self.channels.iter().position(|c| c.id() == channel_id)`; 0 stands for None
position(channels, channel_id) ==
    IF \E i \in 1..Len(channels) : channels[i].id = channel_id
    THEN CHOOSE i \in 1..Len(channels) :
             /\ channels[i].id = channel_id
             /\ \A j \in 1..(i - 1) : channels[j].id # channel_id
    ELSE 0

remove_channel(config, channel_id) ==
    LET pos == position(config.channels, channel_id)
    IN  IF pos = 0
        THEN config
        ELSE [config EXCEPT !.channels = Without(@, pos)]

\* MixerChannel::set_volume
set_volume(channel, volume) == [channel EXCEPT !.volume = clamp(volume, F(0), F(2 * One))]

toggle_mute(channel) == [channel EXCEPT !.muted = ~channel.muted]

ChannelIds == {"mic1", "file1"}

\* volumes given to set_channel_volume: 3.0
ChannelVolumes == {F(3 * One)}

CommandResult(config, pos) ==
    [config EXCEPT !.result = IF pos = 0 THEN "Err" ELSE "Ok"]

AddMicrophoneChannel ==
    /\ Len(mixer_config.channels) < MaxChannels
    /\ \E id \in ChannelIds :
        mixer_config' = [add_channel(mixer_config, MixerChannel(id, "Microphone"))
                            EXCEPT !.result = "Ok"]
    /\ UNCHANGED <<chanVars, engVars, mixVars, clientVars, bridgeVars, ringVars, stub,
                   audioVars, uiVars, extVars, previewVars, sample_op, buffers, histVars>>

AddAudioFileChannel ==
    /\ Len(mixer_config.channels) < MaxChannels
    /\ \E id \in ChannelIds :
        mixer_config' = [add_channel(mixer_config, MixerChannel(id, "AudioFile"))
                            EXCEPT !.result = "Ok"]
    /\ UNCHANGED <<chanVars, engVars, mixVars, clientVars, bridgeVars, ringVars, stub,
                   audioVars, uiVars, extVars, previewVars, sample_op, buffers, histVars>>

RemoveChannel ==
    /\ \E id \in ChannelIds :
        mixer_config' = CommandResult(remove_channel(mixer_config, id),
                                      position(mixer_config.channels, id))
    /\ UNCHANGED <<chanVars, engVars, mixVars, clientVars, bridgeVars, ringVars, stub,
                   audioVars, uiVars, extVars, previewVars, sample_op, buffers, histVars>>

\* get_channel_mut finds the first channel with the id
SetChannelVolume ==
    /\ \E id \in ChannelIds, volume \in ChannelVolumes :
        LET pos == position(mixer_config.channels, id)
        IN  mixer_config' =
                CommandResult(IF pos = 0
                              THEN mixer_config
                              ELSE [mixer_config EXCEPT
                                       !.channels[pos] = set_volume(@, volume)],
                              pos)
    /\ UNCHANGED <<chanVars, engVars, mixVars, clientVars, bridgeVars, ringVars, stub,
                   audioVars, uiVars, extVars, previewVars, sample_op, buffers, histVars>>

ToggleChannelMute ==
    /\ \E id \in ChannelIds :
        LET pos == position(mixer_config.channels, id)
        IN  mixer_config' =
                CommandResult(IF pos = 0
                              THEN mixer_config
                              ELSE [mixer_config EXCEPT !.channels[pos] = toggle_mute(@)],
                              pos)
    /\ UNCHANGED <<chanVars, engVars, mixVars, clientVars, bridgeVars, ringVars, stub,
                   audioVars, uiVars, extVars, previewVars, sample_op, buffers, histVars>>

MixerConfigNext ==
    \/ AddMicrophoneChannel
    \/ AddAudioFileChannel
    \/ RemoveChannel
    \/ SetChannelVolume
    \/ ToggleChannelMute

\* MixerConfig::default()
MixerConfigNew == [channels |-> <<>>, result |-> "none"]

\* the domain layer with nothing applied
(***************************************************************************)
(* Looking a device up by name: find_device of the engine thread,          *)
(* find_output_device of the preview thread and get_device of the          *)
(* CpalDeviceManager.                                                      *)
(***************************************************************************)
DeviceNames == {"default", "", "mic", "cable", "speakers", "headset", "ghost"}

\* CpalDeviceManager::enumerate_devices: a host call that fails adds nothing
enumerate_devices(h) == IF h.enum_ok THEN h.inputs \cup h.outputs ELSE {}

\* CpalDeviceManager::get_device: `devices.into_iter().find(|d| d.id() == id)`
get_device(h, id) == IF id \in enumerate_devices(h) THEN id ELSE None

Lookup(by, name, defaults, enumerated, result) ==
    [by |-> by, name |-> name, defaults |-> defaults, enumerated |-> enumerated,
     result |-> result]

NoLookup == Lookup(None, "default", {}, {}, None)

ResolveFindDevice ==
    /\ \E h \in Hosts, name \in DeviceNames, is_input \in BOOLEAN :
        resolved' = Lookup("find_device", name, {default_device(h, is_input)},
                           IF ~h.enum_ok THEN {}
                           ELSE IF is_input THEN h.inputs ELSE h.outputs,
                           find_device(h, name, is_input))
    /\ UNCHANGED <<restVars, chain, shifter, manager>>

ResolveFindOutputDevice ==
    /\ \E host \in PreviewHosts, name \in DeviceNames :
        resolved' = Lookup("find_output_device", name, {host.default}, host.devices,
                           find_output_device(host, name))
    /\ UNCHANGED <<restVars, chain, shifter, manager>>

ResolveGetDevice ==
    /\ \E h \in Hosts, id \in DeviceNames :
        resolved' = Lookup("get_device", id,
                           {default_device(h, TRUE), default_device(h, FALSE)},
                           enumerate_devices(h), get_device(h, id))
    /\ UNCHANGED <<restVars, chain, shifter, manager>>

ResolveNext ==
    \/ ResolveFindDevice
    \/ ResolveFindOutputDevice
    \/ ResolveGetDevice

(***************************************************************************)
(* dsp/mod.rs: the EffectChain.  A block is an Option that a setter fills;  *)
(* a buffer is modelled by the names of the blocks it went through.        *)
(***************************************************************************)
Blocks == {"pitch", "formant", "reverb", "robot", "distortion"}

\* EffectChain::new: every block is None
EffectChain_new == [blocks |-> {}, enabled |-> <<>>, output |-> <<>>, processed |-> FALSE]

\* `output = block.process(&output)` when the block is Some
Through(c, output, block) ==
    IF block \in c.blocks THEN Append(output, block) ELSE output

\* EffectChain::process, on a buffer no block has touched
EffectChain_process_AsEnabled(c) == c.enabled
EffectChain_process(c) ==
    LET pitched == Through(c, <<>>, "pitch")
        formanted == Through(c, pitched, "formant")
        roboted == Through(c, formanted, "robot")
        distorted == Through(c, roboted, "distortion")
    IN  Through(c, distorted, "reverb")

\* set_pitch_shift, set_formant_shift, enable_reverb, enable_robot and
\* set_distortion: `self.<block> = Some(..)`; `enabled` keeps the order of the
\* first calls
Enable(block) ==
    /\ chain' = [chain EXCEPT !.blocks = @ \cup {block},
                              !.enabled = IF block \in chain.blocks THEN @
                                          ELSE Append(@, block),
                              !.processed = FALSE]
    /\ UNCHANGED <<restVars, resolved, shifter, manager>>

set_pitch_shift == Enable("pitch")

set_formant_shift == Enable("formant")

enable_reverb == Enable("reverb")

enable_robot == Enable("robot")

set_distortion == Enable("distortion")

ChainProcess ==
    /\ chain' = [chain EXCEPT !.output = EffectChain_process(chain), !.processed = TRUE]
    /\ UNCHANGED <<restVars, resolved, shifter, manager>>

ChainNext ==
    \/ set_pitch_shift
    \/ set_formant_shift
    \/ enable_reverb
    \/ enable_robot
    \/ set_distortion
    \/ ChainProcess

(***************************************************************************)
(* dsp/pitch_shifter.rs and dsp/formant_shifter.rs: the loop of process    *)
(* and the buffers process_frame reads and writes.  The two shifters have  *)
(* the same loop; what process_frame does to the spectrum is left out, and *)
(* a slot of the overlap buffer holds the numbers of the frames added to   *)
(* it.  Index i of a Vec is index i + 1 here.                              *)
(***************************************************************************)
\* `let hop_size = fft_size / 4`
fft_size == 4 * HopSize

hop_size == fft_size \div 4

ShifterSamples == {10, -20}

\* PitchShifter::new, FormantShifter::new
Shifter_new(kind) ==
    [kind |-> kind,
     input_buffer |-> [i \in 1..fft_size |-> 0],
     overlap_buffer |-> [i \in 1..fft_size |-> {}],
     input_position |-> 0,
     inputs |-> <<>>, outputs |-> <<>>, frames |-> <<>>,
     call |-> [given |-> 0, returned |-> 0]]

\* process_frame: input_buffer is windowed and transformed, and the result
\* is added to every slot of overlap_buffer
process_frame(sh) ==
    [sh EXCEPT !.frames = Append(@, sh.input_buffer),
               !.overlap_buffer = [i \in 1..fft_size |-> @[i] \cup {Len(sh.frames) + 1}]]

\* `self.input_position = 0` after a frame
Rewound_Stay(input_position) == input_position
Rewound(input_position) == 0

\* `output.push(self.overlap_buffer[0]); rotate_left(1); overlap_buffer[N - 1] = 0.0`
Emit(sh) ==
    [sh EXCEPT !.outputs = Append(@, sh.overlap_buffer[1]),
               !.call.returned = @ + 1,
               !.overlap_buffer = Append(Tail(@), {})]

\* the body of `for &sample in input`
process_sample(sh, sample) ==
    LET stored == [sh EXCEPT !.input_buffer[sh.input_position + 1] = sample,
                             !.input_position = @ + 1,
                             !.inputs = Append(@, sample)]
        framed == IF stored.input_position >= hop_size
                  THEN [process_frame(stored) EXCEPT
                            !.input_position = Rewound(stored.input_position)]
                  ELSE stored
    IN  Emit(framed)

RECURSIVE process_samples(_, _)
process_samples(sh, input) ==
    IF input = <<>> THEN sh
    ELSE process_samples(process_sample(sh, Head(input)), Tail(input))

\* PitchShifter::process, FormantShifter::process
process(sh, input) ==
    process_samples([sh EXCEPT !.call = [given |-> Len(input), returned |-> 0]], input)

ShifterInputs == UNION {[1..n -> ShifterSamples] : n \in 1..MaxChunk}

ShifterProcess(kind) ==
    /\ shifter.kind = kind
    /\ \E input \in ShifterInputs :
        /\ Len(shifter.inputs) + Len(input) <= MaxInput
        /\ shifter' = process(shifter, input)
    /\ UNCHANGED <<restVars, resolved, chain, manager>>

PitchShifterProcess == ShifterProcess("pitch")

FormantShifterProcess == ShifterProcess("formant")

\* set_pitch_shift, set_formant_shift: a shifter is built, or built anew
ShifterNew(kind) ==
    /\ shifter' = Shifter_new(kind)
    /\ UNCHANGED <<restVars, resolved, chain, manager>>

PitchShifterNew == ShifterNew("pitch")

FormantShifterNew == ShifterNew("formant")

ShifterNext ==
    \/ PitchShifterNew
    \/ FormantShifterNew
    \/ PitchShifterProcess
    \/ FormantShifterProcess

(***************************************************************************)
(* soundboard/manager.rs and soundboard/storage.rs: the SoundboardManager. *)
(* storage is the `sounds` table, cache the HashMap behind the RwLock; a   *)
(* call runs on a task of its own and other calls run at its awaits.  A    *)
(* sound is its name and its volume, in tenths.                            *)
(***************************************************************************)
Tasks == {"t1", "t2"}

StoredSound(name, volume) == [name |-> name, volume |-> volume]

ManagerCall(op, id, name, volume) ==
    [op |-> op, id |-> id, name |-> name, volume |-> volume, at |-> "start",
     sound |-> StoredSound("", 0), result |-> None]

NoCall == [ManagerCall(None, "", "", 0) EXCEPT !.at = "idle"]

\* Sound::new: `id: Uuid::new_v4().to_string()`, one per call
NewId(t) == IF t = "t1" THEN "u1" ELSE "u2"

\* the calls a task makes
ManagerCalls(t) ==
    {ManagerCall("add_sound", NewId(t), "C", 10),
     ManagerCall("delete_sound", "s1", "", 0),
     ManagerCall("rename_sound", "s1", "B", 0),
     ManagerCall("rename_sound", "s1", "", 0),
     ManagerCall("rename_sound", "u1", "D", 0),
     ManagerCall("update_volume", "s1", "", 5),
     ManagerCall("update_volume", "s1", "", 30)}

\* Sound::set_volume: `volume.clamp(0.0, 1.0)`
set_volume_to(sound, volume) ==
    [sound EXCEPT !.volume = IF volume < 0 THEN 0 ELSE IF volume > 10 THEN 10 ELSE volume]

\* Sound::validate, for a sound whose file path is not empty
validate(sound) == sound.name # "" /\ 0 <= sound.volume /\ sound.volume <= 10

\* the call of task t returns
Returned(t, result) ==
    [manager.call EXCEPT ![t].at = "returned", ![t].result = result]

ManagerBegin(t) ==
    /\ manager.call[t].at = "idle"
    /\ \E c \in ManagerCalls(t) : manager' = [manager EXCEPT !.call[t] = c]
    /\ UNCHANGED <<restVars, resolved, chain, shifter>>

\* rename_sound, update_volume: get_by_id, the setter and validate
ManagerRead(t) ==
    LET c == manager.call[t]
        sound == IF c.op = "rename_sound"
                 THEN [manager.cache[c.id] EXCEPT !.name = c.name]
                 ELSE set_volume_to(manager.cache[c.id], c.volume)
    IN  /\ c.at = "start"
        /\ c.op \in {"rename_sound", "update_volume"}
        /\ manager' =
              IF c.id \notin DOMAIN manager.cache
              THEN [manager EXCEPT !.call = Returned(t, "SoundNotFound")]
              ELSE IF ~validate(sound)
              THEN [manager EXCEPT !.call = Returned(t, "InvalidOperation")]
              ELSE [manager EXCEPT !.call[t].sound = sound, !.call[t].at = "update"]
        /\ UNCHANGED <<restVars, resolved, chain, shifter>>

\* storage.update(&sound): every column of the row is written
StorageUpdate(t) ==
    LET c == manager.call[t]
    IN  /\ c.at = "update"
        /\ manager' =
              IF c.id \notin DOMAIN manager.storage
              THEN [manager EXCEPT !.call = Returned(t, "SoundNotFound")]
              ELSE [manager EXCEPT !.storage[c.id] = c.sound, !.call[t].at = "cache"]
        /\ UNCHANGED <<restVars, resolved, chain, shifter>>

\* add_sound up to storage.insert(&sound): the file may be missing
StorageInsert(t) ==
    LET c == manager.call[t]
        sound == StoredSound(c.name, c.volume)
    IN  /\ c.at = "start"
        /\ c.op = "add_sound"
        /\ \E exists \in BOOLEAN :
            manager' =
              IF ~exists
              THEN [manager EXCEPT !.call = Returned(t, "SoundFile")]
              ELSE [manager EXCEPT !.storage = Insert(@, c.id, sound),
                                   !.call[t].sound = sound, !.call[t].at = "cache"]
        /\ UNCHANGED <<restVars, resolved, chain, shifter>>

\* `self.cache.write().insert(sound.id.clone(), sound)` and Ok
CacheInsert(t) ==
    LET c == manager.call[t]
    IN  /\ c.at = "cache"
        /\ manager' = [manager EXCEPT !.cache = Insert(@, c.id, c.sound),
                                      !.call = Returned(t, "Ok")]
        /\ UNCHANGED <<restVars, resolved, chain, shifter>>

\* delete_sound: storage.delete(id)
StorageDelete(t) ==
    LET c == manager.call[t]
    IN  /\ c.at = "start"
        /\ c.op = "delete_sound"
        /\ manager' =
              IF c.id \notin DOMAIN manager.storage
              THEN [manager EXCEPT !.call = Returned(t, "SoundNotFound")]
              ELSE [manager EXCEPT !.storage = Remove(@, c.id), !.call[t].at = "uncache"]
        /\ UNCHANGED <<restVars, resolved, chain, shifter>>

\* delete_sound: `self.cache.write().remove(id)` and Ok
CacheRemove(t) ==
    LET c == manager.call[t]
    IN  /\ c.at = "uncache"
        /\ manager' = [manager EXCEPT !.cache = Remove(@, c.id),
                                      !.call = Returned(t, "Ok")]
        /\ UNCHANGED <<restVars, resolved, chain, shifter>>

ManagerTask(t) ==
    \/ ManagerBegin(t)
    \/ ManagerRead(t)
    \/ StorageUpdate(t)
    \/ StorageInsert(t)
    \/ CacheInsert(t)
    \/ StorageDelete(t)
    \/ CacheRemove(t)

ManagerNext == \E t \in Tasks : ManagerTask(t)

\* SoundboardManager::new on a database that holds the sound s1
SoundboardManager_new ==
    [storage |-> [id \in {"s1"} |-> StoredSound("A", 10)],
     cache |-> [id \in {"s1"} |-> StoredSound("A", 10)],
     call |-> [t \in Tasks |-> NoCall]]

ExtNew ==
    /\ resolved = NoLookup
    /\ chain = EffectChain_new
    /\ shifter = Shifter_new(None)
    /\ manager = SoundboardManager_new

DomainNew ==
    /\ sample_op = SampleIdle
    /\ buffers = BuffersIdle
    /\ mixer_config = MixerConfigNew

(***************************************************************************)
(* Initial state: AudioEngine::new() has returned and the engine thread    *)
(* is at its first recv_timeout.                                           *)
(***************************************************************************)
EngineInit ==
    /\ cmdq = <<>>
    /\ events = <<>>
    /\ pc = "recv"
    /\ pending = NoEvent
    /\ input_stream = None
    /\ output_stream = None
    /\ input_s = None
    /\ output_s = None
    /\ is_running = FALSE
    /\ playing_sounds = EmptyMap
    /\ contributed = [id \in DOMAIN playing_sounds |-> NothingMixed(TRUE)]
    /\ mic_volume = 10
    /\ master_volume = 10
    /\ mic_muted = FALSE
    /\ client = "idle"
    /\ sendResult = "none"
    /\ lock = "free"
    /\ ctl = [t \in CtlThreads |-> CtlIdle]
    /\ is_mixing = FALSE
    /\ returned = {}
    /\ frontend = {}
    /\ PreviewNew
    /\ ExtNew
    /\ ring = NewRing
    /\ capture = CaptureIdle
    /\ render = RenderIdle
    /\ stub = SkeletonNew
    /\ state_lock = "free"
    /\ inserted = EmptyMap
    /\ underLock = [cmd |-> NoCommand, before |-> EmptyMap]
    /\ tick = TickIdle
    /\ nrendered = 0
    /\ nsent = 0
    /\ curSeq = 0
    /\ applied = {}
    /\ handled = [cmd |-> "none", failed |-> FALSE, wasRunning |-> FALSE, evs |-> <<>>]
    /\ dropLog = {}
    /\ preStop = {}
    /\ ranBefore = FALSE
    /\ pushLog = <<>>
    /\ popLog = <<>>

Init ==
    /\ EngineInit
    /\ adapter = AdapterNew
    /\ DomainNew

Next ==
    \/ EngineThread
    \/ Owner

Spec == Init /\ [][Next]_vars

\* the streams play: a Start("default", "default") was handled and its Started
\* event was received
StreamsPlaying ==
    /\ cmdq = <<>>
    /\ events = <<>>
    /\ pc = "recv"
    /\ pending = NoEvent
    /\ input_stream = "playing"
    /\ output_stream = "playing"
    /\ input_s = None
    /\ output_s = None
    /\ is_running = TRUE
    /\ client = "idle"
    /\ sendResult = "ok"
    /\ lock = "free"
    /\ ctl = [t \in CtlThreads |-> CtlIdle]
    /\ is_mixing = FALSE
    /\ returned = {}
    /\ frontend = {}
    /\ PreviewNew
    /\ ExtNew
    /\ capture = CaptureIdle
    /\ render = RenderIdle
    /\ stub = SkeletonNew
    /\ state_lock = "free"
    /\ tick = TickIdle
    /\ nrendered = 0
    /\ adapter = AdapterNew
    /\ DomainNew
    /\ dropLog = {}
    /\ preStop = {}
    /\ ranBefore = FALSE
    /\ popLog = <<>>

\* the engine is running: Start("default", "default") was sent and handled
\* and nothing else
Running ==
    /\ StreamsPlaying
    /\ playing_sounds = EmptyMap
    /\ contributed = [id \in DOMAIN playing_sounds |-> NothingMixed(TRUE)]
    /\ inserted = EmptyMap
    /\ master_volume = 10
    /\ ring = NewRing
    /\ pushLog = <<>>
    /\ underLock = [cmd |-> NoCommand, before |-> EmptyMap]

\* Start("default", "default") is the only command sent so far
OnlyStartSent ==
    /\ mic_volume = 10
    /\ mic_muted = FALSE
    /\ nsent = 1
    /\ curSeq = 1
    /\ applied = {1}
    /\ handled = [cmd |-> "Start", failed |-> FALSE, wasRunning |-> FALSE,
                  evs |-> <<"Started">>]

RingInit ==
    /\ Running
    /\ OnlyStartSent

RingSpec == RingInit /\ [][RingNext]_vars

\* a running engine: the owner sends sound and volume commands while the
\* output callback runs
MixNext ==
    \/ MixSend
    \/ HandlePlaySound
    \/ HandleStopSound
    \/ UnlockState
    \/ HandleSetMasterVolume
    \/ RenderBegin
    \/ RenderPop
    \/ RenderEnd

\* the capture callback has run once on <<10, -20>> and no sound plays yet
MixInit ==
    /\ StreamsPlaying
    /\ OnlyStartSent
    /\ playing_sounds = EmptyMap
    /\ contributed = [id \in DOMAIN playing_sounds |-> NothingMixed(TRUE)]
    /\ inserted = EmptyMap
    /\ master_volume = 10
    /\ ring = Store(Store(NewRing, 10), -20)
    /\ pushLog = <<10, -20>>
    /\ underLock = [cmd |-> NoCommand, before |-> EmptyMap]

MixSpec == MixInit /\ [][MixNext]_vars

\* sample sequences of the sounds played while only the callbacks run
SoundData == {<<100, 100, 100, 100>>, <<50, -100>>, <<-100, -50, 100>>}

MasterVolumes == {5, 10, 20}

\* the engine was started after SetMicMuted(true), SetMasterVolume(v) and
\* one PlaySound for "a", or one for "a" and one for "b", were handled
RenderInit ==
    /\ StreamsPlaying
    /\ ring = NewRing
    /\ pushLog = <<>>
    /\ mic_volume = 10
    /\ mic_muted = TRUE
    /\ master_volume \in MasterVolumes
    /\ \E ids \in {{"a"}, {"a", "b"}} :
        /\ inserted \in [ids -> SoundData]
        /\ playing_sounds = [id \in ids |-> PlayingSound(inserted[id])]
        /\ contributed = [id \in DOMAIN playing_sounds |-> NothingMixed(FALSE)]
        /\ LET n == Cardinality(ids)
               last == IF n = 1 THEN "a" ELSE "b"
           IN  /\ underLock =
                     [cmd |-> [PlaySound(last, inserted[last]) EXCEPT !.seq = n + 2],
                      before |-> [id \in ids \ {last} |-> PlayingSound(inserted[id])]]
               /\ nsent = n + 3
               /\ curSeq = n + 3
               /\ applied = 1..(n + 3)
    /\ handled = [cmd |-> "Start", failed |-> FALSE, wasRunning |-> FALSE,
                  evs |-> <<"Started">>]

\* the microphone is muted while both callbacks run
MuteNext ==
    \/ MuteSend
    \/ HandleSetMicMuted
    \/ RingNext

MuteSpec == RingInit /\ [][MuteNext]_vars

\* only the stream callbacks run
RenderSpec == RenderInit /\ [][RingNext]_vars

\* CpalAudioOutput::start has returned Ok
AdapterStarted == [AdapterNew EXCEPT !.stream = "playing"]

\* an output adapter is started next to an engine that was never started
AdapterInit ==
    /\ EngineInit
    /\ adapter = AdapterStarted
    /\ DomainNew

\* the two components that drain a ring, each from the state in which it runs
DrainSpec == (RingInit \/ AdapterInit) /\ [][RingNext \/ AdapterNext]_vars

BridgeSpec == Init /\ [][BridgeNext]_vars

\* start_mixing calls, the engine thread and the forwarding thread
StartSpec == Init /\ [][StartNext]_vars

PreviewSpec == Init /\ [][PreviewNext]_vars

\* operations on a Sample, the first from an f32 drawn from RawFloats
SampleInit ==
    /\ EngineInit
    /\ adapter = AdapterNew
    /\ sample_op \in {[SampleIdle EXCEPT !.arg = x] : x \in RawFloats}
    /\ buffers = BuffersIdle
    /\ mixer_config = MixerConfigNew

SampleSpec == SampleInit /\ [][SampleNext]_vars

\* two buffers built by from_raw_f32, then mixed
BufferInit ==
    /\ EngineInit
    /\ adapter = AdapterNew
    /\ sample_op = SampleIdle
    /\ \E a, b \in Buffers :
        buffers = [a |-> a, b |-> b, result |-> NoResult, gained |-> FALSE]
    /\ mixer_config = MixerConfigNew

BufferSpec == BufferInit /\ [][BufferNext]_vars

MixerConfigSpec == Init /\ [][MixerConfigNext]_vars

\* the preview thread is scheduled: it polls every 50 ms; nothing makes the
\* owner send commands or a source end
PreviewLiveSpec == PreviewSpec /\ WF_vars(PreviewThread)

SkeletonSpec == Init /\ [][SkeletonNext]_vars

\* the engine thread and a thread waiting in join are scheduled; nothing makes
\* the owner send commands or poll events
LiveSpec == Spec /\ WF_vars(EngineThread) /\ WF_vars(ShutdownJoin)

(***************************************************************************)
(* Properties                                                              *)
(***************************************************************************)
NoStreamHeld ==
    /\ input_stream = None
    /\ output_stream = None
    /\ input_s = None
    /\ output_s = None

BetweenCommands == pc = "recv"

\* C1: a Start on which device lookup, stream build or stream play fails emits
\* exactly one Error event and no Started event, leaves no stream handle held
\* and leaves is_running() false.
C1_FailedStartLeavesStopped ==
    (BetweenCommands /\ handled.cmd = "Start" /\ handled.failed)
        => /\ handled.evs = <<"Error">>
           /\ NoStreamHeld
           /\ is_running = FALSE

\* C2: once a Stop has been handled in the Running state no stream is held, no
\* sound is playing, is_running() is false and exactly one Stopped event was
\* emitted for it; and no sound that was playing at a Stop is in the mixer state
\* afterwards unless a later PlaySound inserted it again.
C2_StopReleasesEverything ==
    /\ (BetweenCommands /\ handled.cmd = "Stop" /\ handled.wasRunning)
           => /\ NoStreamHeld
              /\ DOMAIN playing_sounds = {}
              /\ is_running = FALSE
              /\ handled.evs = <<"Stopped">>
    /\ DOMAIN playing_sounds \cap preStop = {}

\* C2 witness: a Stop was handled while the engine ran and a sound played, and
\* a later Start has succeeded.
C2_Witness ==
    /\ ranBefore
    /\ preStop # {}
    /\ is_running
    /\ BetweenCommands

\* C3: when the engine thread sends the Stopped event of a Stop, the state
\* change of every command sent before that Stop has been applied.
C3_AppliedBeforeStopped ==
    (pending = Stopped) => \A n \in 1..(curSeq - 1) : n \in applied

\* C3 witness: the Stopped event of a Stop that two commands preceded.
C3_Witness ==
    /\ pending = Stopped
    /\ curSeq >= 3

HeldInputs == {h \in {<<"input_stream", input_stream>>, <<"input_s", input_s>>} : h[2] # None}

HeldOutputs ==
    {h \in {<<"output_stream", output_stream>>, <<"output_s", output_s>>} : h[2] # None}

\* C4: the engine thread never holds more than one input stream and one output
\* stream: the handles of an earlier Start are released before a later Start
\* opens a stream.
C4_OneStreamPerRole ==
    /\ Cardinality(HeldInputs) <= 1
    /\ Cardinality(HeldOutputs) <= 1

\* C4 witness: after Start, Stop, the second Start has opened both its streams.
C4_Witness ==
    /\ ranBefore
    /\ input_s # None
    /\ output_s # None

\* C5: every stream the engine thread has dropped was paused when it was dropped.
C5_PausedBeforeDrop == \A d \in dropLog : d[2] = "paused"

\* C6: once shutdown() has sent Shutdown and waits in join, the engine thread
\* eventually terminates and shutdown() returns.
C6_ShutdownReturns == (client = "join") ~> (client = "joined")

\* a control thread holds the engine's mutex and waits in send_command on the
\* full command channel, the engine thread waits in event_tx.send on the full
\* event channel, and the forwarding thread, the only consumer of events, cannot
\* take the mutex
CircularWait ==
    /\ \E t \in CtlThreads : lock = t /\ ctl[t].at = "send"
    /\ Len(cmdq) = CmdCap
    /\ pc = "emit"
    /\ Len(events) = EvCap

\* C7: the control threads, the forwarding thread and the engine thread never
\* deadlock, so that no caller of send_command waits forever.
C7_NoDeadlock == ~CircularWait

\* C8: when the engine has an event to emit and the event channel is full, it
\* does not wait for a consumer: its send can complete at once.
C8_EmitNeverWaits == (pc = "emit" /\ Len(events) = EvCap) => ENABLED EmitEvent

\* C9: send_command fails only on an engine that has been shut down: never on
\* the application's engine while its thread runs, and never on the skeleton
\* engine, which has no shutdown.
C9_ClosedOnlyAfterShutdown ==
    /\ (sendResult = "err" => pc = "done")
    /\ stub.result # "Thread"

RECURSIVE IsSubsequence(_, _)
IsSubsequence(a, b) ==
    IF a = <<>> THEN TRUE
    ELSE IF b = <<>> THEN FALSE
    ELSE IF Head(a) = Head(b) THEN IsSubsequence(Tail(a), Tail(b))
    ELSE IsSubsequence(a, Tail(b))

\* C10: the samples the render callback has popped are, unaltered and in push
\* order, a subsequence of the processed samples the capture callback pushed.
C10_PoppedSubsequenceOfPushed == IsSubsequence(popLog, pushLog)

\* C10 witness: the ring refused a sample pushed while it was full, and the
\* render callback has popped more samples than the ring holds.
C10_Witness ==
    /\ Len(popLog) + Occupied(ring) < Len(pushLog)
    /\ Len(popLog) > RingCap

\* the capture callback offers a sample to a full ring in this step
PushOnFull == Len(pushLog') = Len(pushLog) + 1 /\ IsFull(ring)

\* C11 as stated: a push on a full ring drops the oldest sample not yet
\* consumed and stores the new one, so the ring then holds the most recent
\* RingCap samples pushed.
C11_FullRingDropsOldest ==
    [][PushOnFull =>
        Contents(ring') = Append(Tail(Contents(ring)), pushLog'[Len(pushLog')])]_vars

\* C11 amended: a push on a full ring leaves the ring as it was, so the new
\* sample is the one dropped and the ring still holds the oldest RingCap
\* samples not yet consumed.
C11_FullRingDropsNew == [][PushOnFull => ring' = ring]_vars

\* C11 witness: the ring is full and has refused at least one sample
C11_Witness ==
    /\ IsFull(ring)
    /\ Len(pushLog) > Len(popLog) + RingCap

\* the first n samples of c, with zeros where c has run out
ZeroFilled(c, n) == [i \in 1..n |-> IF i <= Len(c) THEN c[i] ELSE 0]

\* the buffer the output adapter rendered last is the ring's samples, then zeros
AdapterZeroFilled == adapter.out = ZeroFilled(adapter.before, Len(adapter.out))

C13_CursorBelowLength ==
    state_lock = "free" =>
        \A id \in DOMAIN playing_sounds :
            /\ playing_sounds[id].position >= 0
            /\ playing_sounds[id].position <= Len(playing_sounds[id].samples)
            /\ playing_sounds[id].position # Len(playing_sounds[id].samples)

\* the engine thread has handled a PlaySound and still holds the state mutex
PlaySoundHandled == pc = "unlock" /\ underLock.cmd.kind = "PlaySound"

\* C14: handling a PlaySound whose samples are empty changes nothing: the
\* map of playing sounds, with any entry under the same id and its cursor, is
\* as it was before the command.
C14_EmptyPlaySoundIsNoOp ==
    (PlaySoundHandled /\ underLock.cmd.samples = <<>>) =>
        playing_sounds = underLock.before

\* C15: after a PlaySound the map holds, under the command's id, the new
\* samples at cursor 0 and every other entry as before; the number of entries
\* does not grow when the id was already playing.
C15_PlaySoundReplaces ==
    PlaySoundHandled =>
        LET id == underLock.cmd.id
            before == underLock.before
        IN  /\ DOMAIN playing_sounds = DOMAIN before \cup {id}
            /\ playing_sounds[id] = [samples |-> underLock.cmd.samples, position |-> 0]
            /\ \A x \in DOMAIN before \ {id} : playing_sounds[x] = before[x]
            /\ id \in DOMAIN before =>
                  Cardinality(DOMAIN playing_sounds) = Cardinality(DOMAIN before)

\* C15 witness: a PlaySound was handled for a sound that was already playing,
\* part-way through other samples
C15_Witness ==
    /\ PlaySoundHandled
    /\ underLock.cmd.id \in DOMAIN underLock.before
    /\ underLock.before[underLock.cmd.id].position > 0
    /\ underLock.before[underLock.cmd.id].samples # underLock.cmd.samples
    /\ Cardinality(DOMAIN underLock.before) > 1

\* the sound layer of the last render callback: what the sounds added to the
\* mic layer before the master volume
SilentSoundLayer == tick.out = ApplyMaster(tick.mic, tick.master)

\* C16: a render callback that finds the state mutex held by the engine thread
\* does not wait: it completes with the mic layer times the master volume as
\* its output, advances no cursor and removes no sound.
C16_ContendedTickIsSilent ==
    /\ (render.left = 0 /\ render # RenderIdle) => ENABLED RenderEnd
    /\ (tick.done /\ tick.holder = "engine") =>
            /\ ~tick.locked
            /\ SilentSoundLayer
            /\ tick.mixed = {}
            /\ ~tick.moved

\* C16 witness: a render callback ran to its end while the engine thread held
\* the state mutex over a map with a sound in it, on a mic layer that is not
\* silent
C16_Witness ==
    /\ tick.done
    /\ tick.holder = "engine"
    /\ state_lock = "engine"
    /\ playing_sounds # EmptyMap
    /\ \E i \in DOMAIN tick.mic : tick.mic[i] # 0

\* C17: a sound with samples whose PlaySound was processed before a render
\* callback began, and which no later command has touched, is mixed by that
\* callback.
C17_ProcessedSoundIsMixed ==
    tick.done =>
        \A id \in tick.present \ tick.touched :
            inserted[id] # <<>> => id \in tick.mixed

\* sample i of the sound played under id, 0 once the sound is over
SoundAt(id, i) == IF i <= Len(inserted[id]) THEN inserted[id][i] ELSE 0

\* every sample of the last render callback is Expected(i), i counting the
\* samples rendered since the engine was started
RendersAs(Expected(_)) ==
    \A j \in DOMAIN tick.out : tick.out[j] = Expected(tick.base + j)

\* C18: one sound s playing from cursor 0, mic muted: rendered sample i is
\* clamp(s[i] * master_volume) while the sound lasts and 0 afterwards,
\* whatever the sizes of the render callbacks.
C18_SingleSoundRendered ==
    (tick.done /\ DOMAIN inserted = {"a"}) =>
        LET Expected(i) == Clamp((SoundAt("a", i) * master_volume) \div 10)
        IN  RendersAs(Expected)

\* C18 witness: a sound of four samples was rendered across at least three
\* callbacks and the last of them went on past its end
C18_Witness ==
    /\ tick.done
    /\ DOMAIN inserted = {"a"}
    /\ Len(inserted["a"]) = 4
    /\ tick.base = 3
    /\ Len(tick.out) = 2

\* C19: two sounds a and b playing from cursor 0, mic silent: rendered
\* sample i is clamp(clamp(a[i] + b[i]) * master_volume).
C19_TwoSoundsRendered ==
    (tick.done /\ DOMAIN inserted = {"a", "b"}) =>
        LET Expected(i) ==
                Clamp((Clamp(SoundAt("a", i) + SoundAt("b", i)) * master_volume) \div 10)
        IN  RendersAs(Expected)

\* C19 witness: two sounds of 1.0 were rendered in one callback as 1.0 at
\* master volume 1.0
C19_Witness ==
    /\ tick.done
    /\ DOMAIN inserted = {"a", "b"}
    /\ inserted["a"] = <<100, 100, 100, 100>>
    /\ inserted["b"] = <<100, 100, 100, 100>>
    /\ master_volume = 10
    /\ tick.base = 0
    /\ tick.out = <<100, 100>>

\* C20: with the microphone muted, master volume 1 and no sound playing,
\* every sample a render callback writes is 0: here for a callback that began
\* and ended with mic_muted true.
C20_MutedOutputIsZero ==
    (tick.done /\ tick.muted /\ mic_muted /\ tick.master = 10
        /\ playing_sounds = EmptyMap /\ tick.mixed = {}) =>
        \A j \in DOMAIN tick.out : tick.out[j] = 0

\* the engine thread is sending a LevelUpdate event
LevelUpdateSent == pc = "emit" /\ pending.kind = "LevelUpdate"

\* C21: from every state in which the engine is running, a LevelUpdate event
\* is eventually sent, unless the engine stops first.
C21_LevelUpdatesKeepComing == is_running ~> (LevelUpdateSent \/ ~is_running)

\* the forwarding thread takes an Error event from the event channel
ErrorConsumed ==
    /\ lock = "fwd"
    /\ events # <<>>
    /\ Head(events).kind = "Error"
    /\ events' = Tail(events)

\* C22: whenever the forwarding thread takes an Error event from the event
\* channel, it emits the event to the webview, unless a start_mixing call that
\* sent its Start has returned an error.
C22_StartFailureReachesUser ==
    [][ErrorConsumed
           => \/ Head(events) \in frontend'
              \/ \E r \in returned : r.sent /\ r.result = "Err"]_vars

\* output streams and sinks that exist: those the thread holds and those the
\* Play handler in progress has created
OpenStreams ==
    (IF current_stream # None THEN 1 ELSE 0)
        + (IF preview_locals.stream # None THEN 1 ELSE 0)

LiveSinks ==
    (IF current_sink # NoSink THEN 1 ELSE 0)
        + (IF preview_locals.sink # NoSink THEN 1 ELSE 0)

\* C23: the preview engine never has more than one open output stream nor
\* more than one sink, and when a Play handler is about to open its stream
\* the previous sink, stream and stream handle are released.
C23_OneStreamOneSink ==
    /\ OpenStreams <= 1
    /\ LiveSinks <= 1
    /\ preview_pc = "open"
        => /\ current_sink = NoSink
           /\ current_stream = None
           /\ current_stream_handle = None

\* a Play handled while a preview was playing has opened its stream and sink
C23_Witness ==
    /\ preview_pc = "store"
    /\ preview_before.stream # None
    /\ preview_before.sink # NoSink
    /\ preview_locals.stream # None
    /\ preview_locals.sink # NoSink

\* preview-started and preview-stopped take turns, beginning with a started,
\* and each stopped carries the pad id of the started before it
Alternate(evs) ==
    \A i \in 1..Len(evs) :
        IF i % 2 = 1
        THEN evs[i].name = "preview-started"
        ELSE /\ evs[i].name = "preview-stopped"
             /\ evs[i].pad_id = evs[i - 1].pad_id

\* C24: the preview events emitted so far alternate between started(p) and
\* stopped(p), and a pad is current exactly when the last event is its started.
C24_EventsAlternate ==
    /\ Alternate(preview_events)
    /\ current_pad_id # None
        <=> /\ preview_events # <<>>
            /\ preview_events[Len(preview_events)]
                   = PreviewEvent("preview-started", current_pad_id)

\* Play(p1) then Play(p2), both succeeding
C24_Witness ==
    preview_events = <<PreviewEvent("preview-started", "p1"),
                       PreviewEvent("preview-stopped", "p1"),
                       PreviewEvent("preview-started", "p2")>>

\* the Play handler in progress fails and goes back to the top of the loop
PlayFails == preview_pc = "open" /\ preview_pc' = "loop"

\* C25: when a Play fails, no event has been emitted since the Play was
\* received, and the sink, the stream and the current pad id are what the
\* handler found.
C25_FailedPlayChangesNothing ==
    [][PlayFails
           => /\ Len(preview_events') = preview_before.events
              /\ current_sink' = preview_before.sink
              /\ current_stream' = preview_before.stream
              /\ current_pad_id' = preview_before.pad_id]_vars

\* the preview thread handles a Stop while no pad id is current
IdleStopHandled ==
    /\ preview_pc = "recv"
    /\ preview_cmdq # <<>>
    /\ PreviewReceived.kind = "Stop"
    /\ current_pad_id = None
    /\ preview_cmdq' = Tail(preview_cmdq)

\* C26: a Stop handled while no pad id is current emits no event and leaves
\* the sink, the stream, its handle and the current pad id as they were.
C26_IdleStopIsSilent ==
    [][IdleStopHandled
           => UNCHANGED <<current_sink, current_stream, current_stream_handle,
                          current_pad_id, preview_events>>]_vars

\* a Stop was handled with no pad id current, after a preview had been played
C26_Witness ==
    /\ preview_before.cmd = "Stop"
    /\ preview_before.pad_id = None
    /\ preview_pc = "loop"
    /\ preview_events # <<>>
    /\ preview_events[Len(preview_events)].name = "preview-stopped"

\* the source of the current preview has ended and the thread has not seen it
SourceEnded == current_sink # NoSink /\ current_sink.empty

\* the preview is over: stopped was the last event, nothing is held
PreviewOver ==
    /\ current_sink = NoSink
    /\ current_stream = None
    /\ current_stream_handle = None
    /\ current_pad_id = None
    /\ preview_events # <<>>
    /\ preview_events[Len(preview_events)].name = "preview-stopped"

InRange(s) == s.class = "finite" /\ -One <= s.v /\ s.v <= One

\* C28: the Sample returned by Sample::new, From<f32>, From<i16>, mix,
\* mix_weighted or apply_gain lies in [-1, 1].
C28_SamplesInRange == sample_op.op # "none" => InRange(sample_op.value)

\* (a + b) / 2, before any clamp
Mean(a, b) == fhalf(fadd(a, b))

\* the two buffers have the same format and their mix has been computed
SameFormatMixed ==
    /\ buffers.result # NoResult
    /\ ~buffers.gained
    /\ buffers.a.channels = buffers.b.channels
    /\ buffers.a.sample_rate = buffers.b.sample_rate

\* C29: the mix of two buffers of the same format succeeds, is as long as the
\* shorter one, has their channels and sample rate, and every element is the
\* mean of the two elements at its position.
C29_MixIsElementwiseMean ==
    SameFormatMixed
        => LET a == buffers.a
               b == buffers.b
               mixed == buffers.result.buffer
           IN  /\ buffers.result.err = "none"
               /\ Len(mixed.samples) = Min(Len(a.samples), Len(b.samples))
               /\ mixed.channels = a.channels
               /\ mixed.sample_rate = a.sample_rate
               /\ \A i \in 1..Len(mixed.samples) :
                      mixed.samples[i] = Mean(a.samples[i], b.samples[i])

\* buffers of different lengths were mixed, and the first elements are -1
\* and 0.5
C29_Witness ==
    /\ SameFormatMixed
    /\ Len(buffers.a.samples) = 2
    /\ Len(buffers.b.samples) = 1
    /\ buffers.a.samples[1] = F(-One)
    /\ buffers.b.samples[1] = F(Half)
    /\ Len(buffers.result.buffer.samples) = 1

\* C30: the ids of the channels of the mixer configuration are pairwise
\* distinct.
C30_ChannelIdsDistinct ==
    \A i, j \in 1..Len(mixer_config.channels) :
        i # j => mixer_config.channels[i].id # mixer_config.channels[j].id

ResolveSpec == Init /\ [][ResolveNext]_vars

\* C31: a lookup of "default" or of the empty name returns the host's default
\* device for the role; a lookup of any other name returns the enumerated
\* device of that name, or none when no such device is enumerated.
C31_LookupByName ==
    resolved.by # None =>
        IF resolved.name \in {"default", ""}
        THEN resolved.result \in resolved.defaults
        ELSE resolved.result =
                 IF resolved.name \in resolved.enumerated THEN resolved.name ELSE None

HoldsBothStreams == input_stream # None /\ output_stream # None

\* C35: between commands is_running is TRUE exactly when the engine thread
\* holds both streams.
C35_RunningIffStreams ==
    pc \in {"recv", "done"} => (is_running <=> HoldsBothStreams)

\* the engine was started, the capture callback has run once on <<10, -20>>
\* with the microphone open, and PlaySound was handled for "a" and for "b"
OrderInit ==
    /\ StreamsPlaying
    /\ ring = Store(Store(NewRing, 10), -20)
    /\ pushLog = <<10, -20>>
    /\ mic_volume = 10
    /\ mic_muted = FALSE
    /\ master_volume \in MasterVolumes
    /\ inserted \in [{"a", "b"} -> SoundData]
    /\ playing_sounds = [id \in {"a", "b"} |-> PlayingSound(inserted[id])]
    /\ contributed = [id \in DOMAIN playing_sounds |-> NothingMixed(TRUE)]
    /\ underLock = [cmd |-> [PlaySound("b", inserted["b"]) EXCEPT !.seq = 3],
                    before |-> [id \in {"a"} |-> PlayingSound(inserted[id])]]
    /\ nsent = 3
    /\ curSeq = 3
    /\ applied = 1..3
    /\ handled = [cmd |-> "PlaySound", failed |-> FALSE, wasRunning |-> TRUE,
                  evs |-> <<>>]

OrderSpec == OrderInit /\ [][RingNext]_vars

\* the output callback hands over a buffer into which it has mixed the sounds
MixedTick == render # RenderIdle /\ render' = RenderIdle /\ tick'.locked

\* C36: the buffer rendered from given microphone samples, sounds, cursors
\* and master volume is the same for every order in which the sound map
\* yields its entries.
C36_OrderIndependent ==
    [][MixedTick =>
          \A order \in Orders(DOMAIN playing_sounds) :
              tick'.out = ApplyMaster(MixSounds(render.out, playing_sounds, order),
                                      render.master)]_vars

ReplayCommands == {Start("default", "default"), Stop, PlaySound("a", <<100, 100>>)}

ReplaySend == Send(ReplayCommands)

ReplayNext ==
    \/ ReplaySend
    \/ TryRecvEvent
    \/ HandleStart
    \/ BuildInputStream
    \/ BuildOutputStream
    \/ PlayInputStream
    \/ PlayOutputStream
    \/ HandleStop
    \/ HandlePlaySound
    \/ UnlockState
    \/ EmitEvent
    \/ RenderBegin
    \/ RenderPop
    \/ RenderEnd

ReplaySpec == Init /\ [][ReplayNext]_vars

\* C38: no sample of a sound whose PlaySound was handled while the engine
\* was stopped is mixed into a rendered buffer.
C38_StoppedPlaySoundNeverMixed ==
    \A id \in DOMAIN contributed :
        contributed[id].mixed # <<>> => contributed[id].running

\* the preview thread is scheduled and a source that plays reaches its end
PreviewEndsSpec == PreviewSpec /\ WF_vars(PreviewThread) /\ WF_vars(SourceEnds)

\* the number of events `name` emitted for pad_id
Emissions(name, pad_id) ==
    Cardinality({i \in DOMAIN preview_events :
                    preview_events[i] = PreviewEvent(name, pad_id)})

\* a preview-started of pad_id has no preview-stopped yet
StartedNotStopped(pad_id) ==
    Emissions("preview-started", pad_id) > Emissions("preview-stopped", pad_id)

\* C39: every preview-started of a pad is eventually followed by a
\* preview-stopped of that pad, and current_pad_id is None whenever the
\* preview thread holds no sink, also once it has returned.
C39_StartedIsStopped ==
    /\ \A pad_id \in {"p1", "p2"} :
           StartedNotStopped(pad_id) ~> ~StartedNotStopped(pad_id)
    /\ [](current_sink = NoSink => current_pad_id = None)

ChainSpec == Init /\ [][ChainNext]_vars

\* the blocks S in the order pitch, formant, robot, distortion, reverb
FixedOrder(S) ==
    SelectSeq(<<"pitch", "formant", "robot", "distortion", "reverb">>,
              LAMBDA block : block \in S)

\* C32: process applies the enabled blocks in the order pitch, formant,
\* robot, distortion, reverb and skips the others, whatever the order in
\* which the blocks were enabled.
C32_FixedBlockOrder ==
    chain.processed => chain.output = FixedOrder(chain.blocks)

\* all five blocks were enabled, reverb first and pitch last, then a buffer
\* was processed
C32_Witness ==
    /\ chain.processed
    /\ Len(chain.enabled) = 5
    /\ chain.enabled[1] = "reverb"
    /\ chain.enabled[5] = "pitch"

ShifterSpec == Init /\ [][ShifterNext]_vars

\* C33: however the input is split into calls of process, a call returns as
\* many samples as it was given, a frame was processed once for every
\* hop_size samples given so far, and input_position is the number of samples
\* given since the last frame, below hop_size.
C33_OneOutputPerInput ==
    /\ shifter.call.returned = shifter.call.given
    /\ Len(shifter.outputs) = Len(shifter.inputs)
    /\ Len(shifter.frames) = Len(shifter.inputs) \div hop_size
    /\ shifter.input_position = Len(shifter.inputs) % hop_size

\* a call of three samples has crossed a frame and ended in the next hop,
\* two frames in all
C33_Witness ==
    /\ shifter.call.given = 3
    /\ Len(shifter.frames) = 2
    /\ shifter.input_position = 1

\* the samples given up to the frame number f, at most the last fft_size
Recent(f) ==
    LET upto == f * hop_size
        from == IF upto > fft_size THEN upto - fft_size + 1 ELSE 1
    IN  SubSeq(shifter.inputs, from, upto)

\* the sequence part is found in buffer, in order and without gaps
HeldInOrder(buffer, part) ==
    \E offset \in 0..(Len(buffer) - Len(part)) :
        \A i \in DOMAIN part : buffer[offset + i] = part[i]

\* C34: the buffer every frame windows and transforms holds, in order, the
\* fft_size samples given last; before fft_size samples are given it holds
\* those given so far and zeros for the rest.
C34_FrameHoldsRecentSamples ==
    \A f \in DOMAIN shifter.frames :
        /\ HeldInOrder(shifter.frames[f], Recent(f))
        /\ \A i \in DOMAIN shifter.frames[f] :
               shifter.frames[f][i] = 0 \/ shifter.frames[f][i] \in ShifterSamples

ManagerSpec == Init /\ [][ManagerNext]_vars

AllReturned == \A t \in Tasks : manager.call[t].at = "returned"

\* the call of task t succeeded and changed field of the sound id to value;
\* no other call that succeeded wrote that field, and the sound is stored
LastWrite(t, op, field) ==
    LET c == manager.call[t]
    IN  /\ c.op = op
        /\ c.result = "Ok"
        /\ c.id \in DOMAIN manager.storage
        /\ \A u \in Tasks \ {t} :
               ~(manager.call[u].op = op /\ manager.call[u].id = c.id
                    /\ manager.call[u].result = "Ok")
        /\ manager.storage[c.id][field] # c.sound[field]

\* C40: once every call has returned, the cache holds the sounds of the
\* storage with the same names and volumes, and the name or volume a
\* successful rename_sound or update_volume wrote is the stored one unless
\* another call of the same kind on that sound succeeded too.
C40_CacheMatchesStorage ==
    AllReturned =>
        /\ manager.cache = manager.storage
        /\ \A t \in Tasks :
               /\ ~LastWrite(t, "rename_sound", "name")
               /\ ~LastWrite(t, "update_volume", "volume")

====
